---- MODULE Spec2Model ----
(***************************************************************************)
(* A model of the POI ingestion pipeline of django-poi-importer:           *)
(*   - the normalizers        (ingest/services/normalizers.py)             *)
(*   - the PointOfInterest model and its validation (ingest/models.py)     *)
(*   - upsert_poi / batch_upsert_pois (ingest/services/upsert.py)          *)
(*   - the import_poi management command                                   *)
(*                             (ingest/management/commands/import_poi.py)  *)
(*                                                                         *)
(* Units.  Ratings are decimal numbers with one fractional digit and are   *)
(* written in tenths (4.5 is 45).  avg_rating has two fractional digits    *)
(* and is written in hundredths (4.17 is 417).  Coordinates have six       *)
(* fractional digits and are written in micro-degrees (40.7128 is          *)
(* 40712800).  An optional value is a tuple: <<>> is None, <<v>> is v.     *)
(* A string field that may be None holds NoneS for None.                   *)
(***************************************************************************)
EXTENDS Integers, Sequences, FiniteSets, TLC

VARIABLES
    store,      \* the PointOfInterest table: a set of rows
    nextId,     \* the next value of the AutoField primary key
    call,       \* the payload of the last upsert_poi call (history)
    result,     \* what the last upsert_poi call returned or that it raised
    procs,      \* the upsert_poi calls in progress, when they run concurrently
    stats,      \* Command.stats, the counters of the import_poi command
    cmd         \* the import_poi command: its options and where it stands

storeVars == <<store, nextId>>
vars == <<store, nextId, call, result, procs, stats, cmd>>

-----------------------------------------------------------------------------
(* Strings *)

NoneS == "<None>"
Name256 == "name of 256 characters"
Category65 == "category of 65 characters"

\* str.strip() on the strings of the model
Strip(s) ==
    CASE s = " " -> ""
      [] s = " a " -> "a"
      [] OTHER -> s

\* len() on the strings of the model
StrLen(s) ==
    CASE s = "" -> 0
      [] s = Name256 -> 256
      [] s = Category65 -> 65
      [] OTHER -> 10

normalize_string(value, default) ==
    IF value = NoneS THEN default
    ELSE IF Strip(value) = "" THEN default ELSE Strip(value)

-----------------------------------------------------------------------------
(* Floating point.  compute_average_rating adds Python floats (IEEE 754    *)
(* doubles).  A double x that stands for k tenths is the pair <<k, d>>     *)
(* with x = k/10 + d * 2^-56 / 10: k is the decimal value and d the        *)
(* representation error, in tenths of 2^-56.  Every double in [2^-4, 32)   *)
(* is a multiple of 2^-56, and the doubles of the binade [2^j, 2^(j+1))    *)
(* are the multiples of 2^(j+4) * 2^-56.                                   *)

RECURSIVE PowMod(_, _, _)
PowMod(b, e, m) ==
    IF e = 0 THEN 1 % m
    ELSE IF e % 2 = 0 THEN PowMod((b * b) % m, e \div 2, m)
    ELSE (b * PowMod(b, e - 1, m)) % m

\* 2^56 modulo 20u, for the spacings u
TwoTo56Mod20 == [u \in {1, 2, 4, 8, 16, 32, 64, 128, 256} |-> PowMod(2, 56, 20 * u)]

\* the spacing of the doubles around the value k/10 + e*2^-56/10, for k >= 1,
\* in units of 2^-56
UlpUnits(k, e) ==
    LET below(th) == k < th \/ (k = th /\ e < 0)
    IN  IF k <= 1 THEN 1
        ELSE IF k <= 2 THEN 2
        ELSE IF below(5) THEN 4
        ELSE IF below(10) THEN 8
        ELSE IF below(20) THEN 16
        ELSE IF below(40) THEN 32
        ELSE IF below(80) THEN 64
        ELSE IF below(160) THEN 128
        ELSE 256

\* round-to-nearest, ties-to-even, of the real k/10 + e*2^-56/10 to a double:
\* the error d of that double
\* for the spacing 10 * u of the doubles around it, M being the position of
\* the real within two spacings
RoundAtUlp(e, u, M) ==
    LET r == M % (10 * u)
        odd == M >= 10 * u
    IN  IF r = 0 THEN e
        ELSE IF 2 * r < 10 * u THEN e - r
        ELSE IF 2 * r > 10 * u THEN e + 10 * u - r
        ELSE IF odd THEN e + 10 * u - r ELSE e - r

RoundWithUlp(k, e, u) == RoundAtUlp(e, u, (k * TwoTo56Mod20[u] + e) % (20 * u))

RoundToDouble(k, e) == IF k = 0 THEN 0 ELSE RoundWithUlp(k, e, UlpUnits(k, e))

\* the representation error of the double nearest to k tenths, 0 <= k <= 50
NearestDoubleError == [k \in 0..50 |-> RoundToDouble(k, 0)]

\* float("4.6"): the double nearest to k tenths
FloatOfTenths(k) == <<k, NearestDoubleError[k]>>

\* a + b on doubles
FloatAdd(a, b) == <<a[1] + b[1], RoundToDouble(a[1] + b[1], a[2] + b[2])>>

\* sum(xs) for a list of non-negative doubles, left to right from 0
RECURSIVE FloatSum(_)
FloatSum(xs) ==
    IF xs = <<>> THEN <<0, 0>>
    ELSE FloatAdd(FloatSum(SubSeq(xs, 1, Len(xs) - 1)), xs[Len(xs)])

-----------------------------------------------------------------------------
(* normalizers.py *)

RatingMin == 0
RatingMax == 50

clamp_rating(rating) ==
    IF rating < RatingMin THEN RatingMin
    ELSE IF rating > RatingMax THEN RatingMax
    ELSE rating

\* Decimal(str(s / n)).quantize(Decimal("0.01"), ROUND_HALF_UP), in hundredths,
\* for the double s = <<k, d>> and 1 <= n <= 7.  str() gives the shortest
\* decimal that reads back as the double, so the quotient rounds up exactly
\* when it is not below the double nearest to the decimal midpoint.  The
\* decimal k/(10n) is a midpoint only for n = 4, where the division is exact.
QuantizeHalfUp(s, n) ==
    LET k == s[1]
        q == (20 * k + n) \div (2 * n)
        midpoint == (20 * k + n) % (2 * n) = 0
    IN  IF midpoint /\ s[2] < RoundToDouble(k, 0) THEN q - 1 ELSE q

compute_average_rating(ratings) ==
    IF ratings = <<>> THEN 0
    ELSE LET clamped_ratings ==
                 [i \in 1..Len(ratings) |-> FloatOfTenths(clamp_rating(ratings[i]))]
         IN  QuantizeHalfUp(FloatSum(clamped_ratings), Len(ratings))

-----------------------------------------------------------------------------
(* models.py: PointOfInterest *)

SOURCE_CHOICES == {"csv", "json", "xml"}

MaxExternalIdLen == 128
MaxNameLen == 255
MaxCategoryLen == 64
\* DecimalField(max_digits=9, decimal_places=6): at most 3 digits before the
\* point, so the magnitude in micro-degrees is below 10^9
CoordDigitsLimit == 1000000000
\* DecimalField(max_digits=3, decimal_places=2): below 10 in hundredths
AvgDigitsLimit == 1000
AvgRatingMax == 500

\* the fields of the unique constraint unique_external_id_source, which are
\* also the lookup of get_or_create
SameKeyByName(r, external_id, source) ==
    r.name = external_id /\ r.source = source

SameKeyIgnoringSource(r, external_id, source) ==
    r.external_id = external_id

SameKey(r, external_id, source) ==
    r.external_id = external_id /\ r.source = source

KeyRows(st, external_id, source) ==
    {r \in st : SameKey(r, external_id, source)}

\* Model.clean_fields: the validators of the field definitions
clean_fields(row) ==
    /\ StrLen(row.external_id) <= MaxExternalIdLen
    /\ row.source \in SOURCE_CHOICES
    /\ StrLen(row.name) <= MaxNameLen
    /\ -CoordDigitsLimit < row.latitude /\ row.latitude < CoordDigitsLimit
    /\ -CoordDigitsLimit < row.longitude /\ row.longitude < CoordDigitsLimit
    /\ StrLen(row.category) <= MaxCategoryLen
    /\ -AvgDigitsLimit < row.avg_rating /\ row.avg_rating < AvgDigitsLimit

\* PointOfInterest.clean
clean(row) ==
    /\ ~(row.avg_rating < 0 \/ row.avg_rating > AvgRatingMax)
    /\ \A i \in 1..Len(row.ratings_raw) :
           ~(row.ratings_raw[i] < RatingMin \/ row.ratings_raw[i] > RatingMax)

\* Model.validate_constraints over Meta.constraints: no other row has the key,
\* and avg_rating_range_check
validate_constraints(row, st) ==
    /\ \A r \in st : r.id # row.id => ~SameKey(r, row.external_id, row.source)
    /\ row.avg_rating >= 0 /\ row.avg_rating <= AvgRatingMax

\* Model.full_clean, which PointOfInterest.save runs before every write
full_clean(row, st) ==
    /\ clean_fields(row)
    /\ clean(row)
    /\ validate_constraints(row, st)

\* a table without the unique index
UniqueIndexOff(row, st) ==
    TRUE

\* the table's unique index at INSERT: an IntegrityError when it is FALSE
UniqueIndexOk(row, st) ==
    \A r \in st : ~SameKey(r, row.external_id, row.source)

-----------------------------------------------------------------------------
(* upsert.py: upsert_poi on a dict payload *)

Raise(st, nid) ==
    [store |-> st, nextId |-> nid, raised |-> TRUE, created |-> FALSE, id |-> 0]

Return(st, nid, created, id) ==
    [store |-> st, nextId |-> nid, raised |-> FALSE, created |-> created, id |-> id]

\* the assignments of the update branch, written by save(update_fields=...)
UpdatedRowKeepingDescription(poi, f) ==
    [poi EXCEPT !.name = f.name, !.latitude = f.latitude,
                !.longitude = f.longitude, !.category = f.category,
                !.ratings_raw = f.ratings_raw, !.avg_rating = f.avg_rating]

UpdatedRow(poi, f) ==
    [poi EXCEPT !.name = f.name, !.latitude = f.latitude,
                !.longitude = f.longitude, !.category = f.category,
                !.ratings_raw = f.ratings_raw, !.avg_rating = f.avg_rating,
                !.description = f.description]

NewRow(id, external_id, source, f) ==
    [id |-> id, external_id |-> external_id, source |-> source,
     name |-> f.name, latitude |-> f.latitude, longitude |-> f.longitude,
     category |-> f.category, ratings_raw |-> f.ratings_raw,
     avg_rating |-> f.avg_rating, description |-> f.description]

\* an upsert that replaces the row it finds: delete, then insert under a new
\* primary key
delete_and_create(st, nid, external_id, source, f) ==
    LET found == KeyRows(st, external_id, source)
        poi == NewRow(nid, external_id, source, f)
    IN  IF full_clean(poi, st \ found) /\ UniqueIndexOk(poi, st \ found)
        THEN Return((st \ found) \cup {poi}, nid + 1, found = {}, poi.id)
        ELSE Raise(st, nid)

\* an update branch that writes the row before it validates it, outside a
\* transaction
get_or_create_and_update_unchecked(st, nid, external_id, source, f) ==
    LET found == KeyRows(st, external_id, source)
    IN  IF Cardinality(found) > 1 THEN Raise(st, nid)
        ELSE IF found = {}
        THEN LET poi == NewRow(nid, external_id, source, f)
             IN  IF full_clean(poi, st) /\ UniqueIndexOk(poi, st)
                 THEN Return(st \cup {poi}, nid + 1, TRUE, poi.id)
                 ELSE Raise(st, nid)
        ELSE LET old == CHOOSE r \in found : TRUE
                 poi == UpdatedRow(old, f)
             IN  IF full_clean(poi, st)
                 THEN Return((st \ {old}) \cup {poi}, nid, FALSE, poi.id)
                 ELSE Raise((st \ {old}) \cup {poi}, nid)

\* the transaction.atomic() block: get_or_create, then the update branch
get_or_create_and_update(st, nid, external_id, source, f) ==
    LET found == KeyRows(st, external_id, source)
    IN  IF Cardinality(found) > 1 THEN Raise(st, nid)   \* MultipleObjectsReturned
        ELSE IF found = {}
        THEN LET poi == NewRow(nid, external_id, source, f)
             IN  IF full_clean(poi, st) /\ UniqueIndexOk(poi, st)
                 THEN Return(st \cup {poi}, nid + 1, TRUE, poi.id)
                 ELSE Raise(st, nid)
        ELSE LET old == CHOOSE r \in found : TRUE
                 poi == UpdatedRow(old, f)
             IN  IF full_clean(poi, st)
                 THEN Return((st \ {old}) \cup {poi}, nid, FALSE, poi.id)
                 ELSE Raise(st, nid)

\* the checks of the dict path that raise ValueError
RequiredFieldMissing(payload) ==
    \/ normalize_string(payload.external_id, "") = ""
    \/ normalize_string(payload.source, "") \notin {"csv", "json", "xml"}
    \/ normalize_string(payload.name, "") = ""
    \/ payload.latitude = <<>> \/ payload.longitude = <<>>

\* the values upsert_poi writes: the defaults of get_or_create and the
\* assignments of the update branch
DerivedFields(payload) ==
    LET ratings == IF payload.ratings.isList THEN payload.ratings.items ELSE <<>>
    IN  [name |-> normalize_string(payload.name, ""),
         latitude |-> payload.latitude[1],
         longitude |-> payload.longitude[1],
         category |-> normalize_string(payload.category, "Unknown"),
         ratings_raw |-> ratings,
         avg_rating |-> compute_average_rating(ratings),
         description |-> normalize_string(payload.description, "")]

upsert_poi(st, nid, payload) ==
    IF RequiredFieldMissing(payload)
    THEN Raise(st, nid)                                  \* ValueError
    ELSE get_or_create_and_update(st, nid,
             normalize_string(payload.external_id, ""),
             normalize_string(payload.source, ""),
             DerivedFields(payload))

\* batch_upsert_pois, from the i-th payload on: the counts it returns
BatchCounts(st, nid, created_count, updated_count, error_count) ==
    [store |-> st, nextId |-> nid, created_count |-> created_count,
     updated_count |-> updated_count, error_count |-> error_count]

RECURSIVE batch_upsert_from(_, _, _, _, _, _, _)
RECURSIVE batch_upsert_next(_, _, _, _, _, _, _, _)
\* a loop that ends at the first payload whose upsert raises
batch_upsert_until_error(r, st, nid, payloads, i, created_count, updated_count, error_count) ==
    IF r.raised
    THEN BatchCounts(st, nid, created_count, updated_count, error_count + 1)
    ELSE IF r.created
    THEN batch_upsert_from(r.store, r.nextId, payloads, i + 1,
                           created_count + 1, updated_count, error_count)
    ELSE batch_upsert_from(r.store, r.nextId, payloads, i + 1,
                           created_count, updated_count + 1, error_count)

batch_upsert_next(r, st, nid, payloads, i, created_count, updated_count, error_count) ==
    IF r.raised
    THEN batch_upsert_from(st, nid, payloads, i + 1,
                           created_count, updated_count, error_count + 1)
    ELSE IF r.created
    THEN batch_upsert_from(r.store, r.nextId, payloads, i + 1,
                           created_count + 1, updated_count, error_count)
    ELSE batch_upsert_from(r.store, r.nextId, payloads, i + 1,
                           created_count, updated_count + 1, error_count)

batch_upsert_from(st, nid, payloads, i, created_count, updated_count, error_count) ==
    IF i > Len(payloads)
    THEN BatchCounts(st, nid, created_count, updated_count, error_count)
    ELSE batch_upsert_next(upsert_poi(st, nid, payloads[i]), st, nid, payloads, i,
                           created_count, updated_count, error_count)

batch_upsert_pois(st, nid, payloads) ==
    batch_upsert_from(st, nid, payloads, 1, 0, 0, 0)

-----------------------------------------------------------------------------
(* The callers of upsert_poi: the payloads they pass *)

List(items) == [isList |-> TRUE, items |-> items]
NotAList == [isList |-> FALSE, items |-> <<>>]

\* a complete, valid payload for the key (external_id, source)
BasePayload(external_id, source) ==
    [external_id |-> external_id, source |-> source, name |-> "Cafe",
     latitude |-> <<40712800>>, longitude |-> <<-74006000>>,
     category |-> "restaurant", ratings |-> List(<<30, 40>>),
     description |-> "first"]

\* the same key with every other field different
OtherPayload(external_id, source) ==
    [external_id |-> external_id, source |-> source, name |-> "Hotel",
     latitude |-> <<41000000>>, longitude |-> <<-75000000>>,
     category |-> "hotel", ratings |-> List(<<45, 50, 40>>),
     description |-> "second"]

PayloadKeys == {<<"a", "csv">>, <<"a", "json">>, <<"b", "xml">>}

\* the payloads of one key that upsert_poi accepts and that are in range:
\* the two above and the base payload with its optional fields absent
AcceptedPayloadsOf(e, s) ==
    LET b == BasePayload(e, s)
    IN  { b, OtherPayload(e, s),
          [b EXCEPT !.category = NoneS, !.ratings = NotAList,
                    !.description = NoneS] }

\* payloads whose coordinates are outside [-90, 90] or [-180, 180]
OutOfRangePayloads ==
    { [BasePayload("a", "csv") EXCEPT !.latitude = <<95000000>>],
      [BasePayload("a", "json") EXCEPT !.longitude = <<-181000000>>] }

\* payloads that upsert_poi or the model's validation refuses
RefusedPayloads ==
    LET b == BasePayload("a", "csv")
    IN  { [b EXCEPT !.name = " "],
          [b EXCEPT !.name = Name256],
          [b EXCEPT !.category = Category65],
          [b EXCEPT !.latitude = <<>>],
          [b EXCEPT !.longitude = <<>>],
          [b EXCEPT !.latitude = <<1000000000>>],
          [b EXCEPT !.ratings = List(<<60, -10, 30>>)],
          BasePayload(NoneS, "csv"),
          BasePayload("a", "ftp") }

Payloads ==
    UNION {AcceptedPayloadsOf(k[1], k[2]) : k \in PayloadKeys}
    \cup OutOfRangePayloads
    \cup RefusedPayloads
    \cup { BasePayload(" a ", "csv") }

\* the lists given to batch_upsert_pois
PayloadLists ==
    LET b == BasePayload("a", "csv")
        some == { b, OtherPayload("a", "csv"),
                  [b EXCEPT !.name = Name256],
                  [b EXCEPT !.longitude = <<181000000>>] }
    IN  {<<p, q>> : p \in some, q \in some}

NoCall == <<>>
NoResult == [op |-> "none", raised |-> FALSE, created |-> FALSE, id |-> 0]
NoProcs == <<>>
NoCmd == [pc |-> "none"]

\* Command.stats as Command.__init__ leaves it
ZeroStats ==
    [files_seen |-> 0, files_processed |-> 0, files_skipped |-> 0,
     records_ok |-> 0, records_skipped |-> 0,
     created |-> 0, updated |-> 0, errors |-> 0]

StoreInit ==
    /\ store = {}
    /\ nextId = 1

Init ==
    /\ StoreInit
    /\ call = NoCall
    /\ result = NoResult
    /\ procs = NoProcs
    /\ stats = ZeroStats
    /\ cmd = NoCmd

\* one call of upsert_poi(payload)
UpsertReturns(r) ==
    /\ store' = r.store
    /\ nextId' = r.nextId
    /\ result' = [op |-> "upsert_poi", raised |-> r.raised,
                  created |-> r.created, id |-> r.id]

Upsert(payload) ==
    /\ call' = <<payload>>
    /\ UpsertReturns(upsert_poi(store, nextId, payload))
    /\ UNCHANGED <<procs, stats, cmd>>

BatchUpsertReturns(r) ==
    /\ store' = r.store
    /\ nextId' = r.nextId
    /\ result' = [op |-> "batch_upsert_pois", raised |-> FALSE,
                  created |-> FALSE, id |-> 0,
                  counts |-> <<r.created_count, r.updated_count, r.error_count>>]

\* one call of batch_upsert_pois(payloads)
BatchUpsert(payloads) ==
    /\ call' = payloads
    /\ BatchUpsertReturns(batch_upsert_pois(store, nextId, payloads))
    /\ UNCHANGED <<procs, stats, cmd>>

Next ==
    \/ \E payload \in Payloads : Upsert(payload)
    \/ \E payloads \in PayloadLists : BatchUpsert(payloads)

Spec == Init /\ [][Next]_vars

-----------------------------------------------------------------------------
(* Properties of upsert_poi under Spec *)

\* what upsert_poi derives from a payload
DerivedKey(p) ==
    <<normalize_string(p.external_id, ""), normalize_string(p.source, "")>>

DerivedRatings(p) == IF p.ratings.isList THEN p.ratings.items ELSE <<>>

IsUpsertCall(c, res) == res.op = "upsert_poi" /\ Len(c) = 1

\* C1: after any sequence of upsert_poi calls the store holds at most one
\* entity for each (external_id, source) pair.
C1_OneEntityPerKey ==
    \A r1, r2 \in store :
        (r1.external_id = r2.external_id /\ r1.source = r2.source) => r1 = r2

\* a key has been upserted again while two other entities exist
C1_Witness ==
    /\ IsUpsertCall(call, result)
    /\ ~result.raised /\ ~result.created
    /\ Cardinality(store) = 3

\* C2: a successful upsert_poi(B) for a key that already has an entity
\* returns created = false and the id of that entity, and leaves the entity
\* with the name, latitude, longitude, category, ratings_raw, avg_rating and
\* description derived from B.
C2_UpdateReflectsSecondRecord ==
    [][ \A old \in store :
          ( /\ IsUpsertCall(call', result')
            /\ ~result'.raised
            /\ DerivedKey(call'[1]) = <<old.external_id, old.source>> )
          => /\ ~result'.created
             /\ result'.id = old.id
             /\ \E new \in store' :
                  /\ new.id = old.id
                  /\ new.external_id = old.external_id
                  /\ new.source = old.source
                  /\ new.name = normalize_string(call'[1].name, "")
                  /\ new.latitude = call'[1].latitude[1]
                  /\ new.longitude = call'[1].longitude[1]
                  /\ new.category = normalize_string(call'[1].category, "Unknown")
                  /\ new.ratings_raw = DerivedRatings(call'[1])
                  /\ new.avg_rating = compute_average_rating(DerivedRatings(call'[1]))
                  /\ new.description = normalize_string(call'[1].description, "")
      ]_vars

\* the entity of ("a", "json") has been overwritten with the second record
C2_Witness ==
    /\ IsUpsertCall(call, result)
    /\ call[1] = OtherPayload("a", "json")
    /\ ~result.raised /\ ~result.created
    /\ nextId = 2
    /\ \E r \in store :
          /\ r.id = result.id /\ r.name = "Hotel" /\ r.latitude = 41000000
          /\ r.ratings_raw = <<45, 50, 40>> /\ r.avg_rating = 450
          /\ r.description = "second"

\* C3: an upsert for (e, s1) never creates, modifies or removes the entity
\* stored for (e, s2), s2 # s1; entities of one external_id under different
\* sources have different ids.
C3_OtherSourcesUntouched ==
    [][ /\ IsUpsertCall(call', result') =>
             LET e == DerivedKey(call'[1])[1]
                 s1 == DerivedKey(call'[1])[2]
             IN  {r \in store : r.external_id = e /\ r.source # s1}
                   = {r \in store' : r.external_id = e /\ r.source # s1}
        /\ \A r1, r2 \in store' :
             (r1.external_id = r2.external_id /\ r1.source # r2.source)
                => r1.id # r2.id
      ]_vars

\* "a" is stored under csv and under json, and the json entity alone has
\* been updated
C3_Witness ==
    /\ IsUpsertCall(call, result)
    /\ DerivedKey(call[1]) = <<"a", "json">>
    /\ ~result.raised /\ ~result.created
    /\ \E r1, r2 \in store :
          /\ r1.external_id = "a" /\ r1.source = "csv" /\ r1.name = "Cafe"
          /\ r2.external_id = "a" /\ r2.source = "json" /\ r2.name = "Hotel"
          /\ r1.id # r2.id

\* C6: every stored entity has latitude in [-90, 90] and longitude in
\* [-180, 180].
C6_CoordinatesInRange ==
    \A r \in store :
        /\ -90000000 <= r.latitude /\ r.latitude <= 90000000
        /\ -180000000 <= r.longitude /\ r.longitude <= 180000000

-----------------------------------------------------------------------------
(* upsert_poi over rating lists: SpecRatings *)

MaxRatings == 4

\* the sequences over S of length at most n
SeqsUpTo(S, n) == UNION {[1..m -> S] : m \in 0..n}

\* rating lists: every list of 0.0, 0.1 and 4.6 up to MaxRatings long, the
\* lists of the tests and of the specification's examples, and lists with
\* ratings outside [0, 5]
RatingLists ==
    SeqsUpTo({0, 1, 46}, MaxRatings)
    \cup { <<45, 38, 42>>, <<30, 40>>, <<45, 50, 40>>, <<35, 40, 28>> }
    \cup { <<60, -10, 30, 40>>, <<60, -10, 30>>, <<60>>, <<-10>> }

RatingPayloads ==
    {[BasePayload("a", "csv") EXCEPT !.ratings = List(r)] : r \in RatingLists}
    \cup {[BasePayload("a", "csv") EXCEPT !.ratings = NotAList]}

NextRatings == \E payload \in RatingPayloads : Upsert(payload)

SpecRatings == Init /\ [][NextRatings]_vars

RECURSIVE SumClamped(_)
SumClamped(ratings) ==
    IF ratings = <<>> THEN 0
    ELSE LET x == ratings[Len(ratings)]
         IN  SumClamped(SubSeq(ratings, 1, Len(ratings) - 1))
               + (IF x < 0 THEN 0 ELSE IF x > 50 THEN 50 ELSE x)

\* C5: each entity's avg_rating is the arithmetic mean of its ratings, each
\* clamped into [0, 5], rounded half-up to 2 decimals, and 0.00 when there
\* are no ratings; it lies in [0.00, 5.00].  With a the avg_rating in
\* hundredths, S the sum of the clamped ratings in tenths and n their number,
\* a is the half-up rounding of 10 S / n:  a - 1/2 <= 10 S / n < a + 1/2.
C5_AvgIsHalfUpMean ==
    \A r \in store :
        LET n == Len(r.ratings_raw)
            S == SumClamped(r.ratings_raw)
            a == r.avg_rating
        IN  /\ 0 <= a /\ a <= 500
            /\ n = 0 => a = 0
            /\ n > 0 => (2 * n * a - n <= 20 * S /\ 20 * S < 2 * n * a + n)

\* C16: an upsert_poi call whose ratings hold a value outside [0, 5], its
\* other fields being valid, does not raise, and the entity it returns is
\* stored with an avg_rating that is the half-up mean of the clamped ratings
\* (3.00 for 6.0, -1.0, 3.0, 4.0).
C16_OutOfRangeRatingsStoredClamped ==
    ( /\ IsUpsertCall(call, result)
      /\ call[1].ratings.isList
      /\ \E i \in 1..Len(call[1].ratings.items) :
            call[1].ratings.items[i] < RatingMin \/ call[1].ratings.items[i] > RatingMax )
    => /\ ~result.raised
       /\ \E r \in store :
             /\ r.id = result.id
             /\ <<r.external_id, r.source>> = DerivedKey(call[1])
             /\ LET n == Len(call[1].ratings.items)
                    S == SumClamped(call[1].ratings.items)
                IN  2 * n * r.avg_rating - n <= 20 * S
                    /\ 20 * S < 2 * n * r.avg_rating + n

-----------------------------------------------------------------------------
(* Two upsert_poi calls running concurrently on one key.  Each call is a    *)
(* sequence of statements against the store; a statement is atomic, and a   *)
(* write is visible to the other call when it is made.                      *)

ProcIds == {1, 2}

ConcKey == <<"a", "csv">>

\* the records the two calls carry, and the record of an entity stored before
ConcPayloads == AcceptedPayloadsOf(ConcKey[1], ConcKey[2])

EarlierPayload ==
    [external_id |-> ConcKey[1], source |-> ConcKey[2], name |-> "Museum",
     latitude |-> <<42000000>>, longitude |-> <<-76000000>>,
     category |-> "museum", ratings |-> List(<<20>>), description |-> "zeroth"]

NewProc(payload) ==
    [pc |-> "get", payload |-> payload, poi |-> 0,
     created |-> FALSE, raised |-> FALSE, retried |-> FALSE]

InitConc ==
    /\ \/ StoreInit
       \/ /\ store = {NewRow(1, ConcKey[1], ConcKey[2], DerivedFields(EarlierPayload))}
          /\ nextId = 2
    /\ \E p1, p2 \in ConcPayloads :
          procs = [i \in ProcIds |-> NewProc(IF i = 1 THEN p1 ELSE p2)]
    /\ call = NoCall
    /\ result = NoResult
    /\ stats = ZeroStats
    /\ cmd = NoCmd

ProcKey(i) == DerivedKey(procs[i].payload)

\* the instance a call holds once it has a primary key: the key and the
\* primary key of the row it read, the other fields from its payload
ProcRow(i) ==
    NewRow(procs[i].poi, ProcKey(i)[1], ProcKey(i)[2],
           DerivedFields(procs[i].payload))

ProcRaise(i) ==
    procs' = [procs EXCEPT ![i].pc = "done", ![i].raised = TRUE]

\* get_or_create: self.get(**kwargs)
ConcGet(i) ==
    /\ procs[i].pc = "get"
    /\ LET found == KeyRows(store, ProcKey(i)[1], ProcKey(i)[2])
       IN  IF RequiredFieldMissing(procs[i].payload) \/ Cardinality(found) > 1
           THEN ProcRaise(i)
           ELSE IF found = {}
           THEN procs' = [procs EXCEPT ![i].pc = "create_clean"]
           ELSE procs' = [procs EXCEPT ![i].pc = "update_clean",
                                       ![i].poi = (CHOOSE r \in found : TRUE).id]
    /\ UNCHANGED <<store, nextId, call, result, stats, cmd>>

\* get_or_create: self.create(**params) -> save -> full_clean
ConcCreateClean(i) ==
    /\ procs[i].pc = "create_clean"
    /\ IF full_clean(ProcRow(i), store)
       THEN procs' = [procs EXCEPT ![i].pc = "insert"]
       ELSE ProcRaise(i)                                 \* ValidationError
    /\ UNCHANGED <<store, nextId, call, result, stats, cmd>>

\* save -> super().save: the INSERT
ConcInsert(i) ==
    /\ procs[i].pc = "insert"
    /\ IF UniqueIndexOk(ProcRow(i), store)
       THEN /\ store' = store \cup {[ProcRow(i) EXCEPT !.id = nextId]}
            /\ nextId' = nextId + 1
            /\ procs' = [procs EXCEPT ![i].pc = "done", ![i].poi = nextId,
                                      ![i].created = TRUE]
       ELSE /\ procs' = [procs EXCEPT ![i].pc = "reget", ![i].retried = TRUE]
            /\ UNCHANGED <<store, nextId>>               \* IntegrityError
    /\ UNCHANGED <<call, result, stats, cmd>>

\* get_or_create: except IntegrityError: self.get(**kwargs), else re-raise
ConcReget(i) ==
    /\ procs[i].pc = "reget"
    /\ LET found == KeyRows(store, ProcKey(i)[1], ProcKey(i)[2])
       IN  IF Cardinality(found) # 1
           THEN ProcRaise(i)
           ELSE procs' = [procs EXCEPT ![i].pc = "update_clean",
                                       ![i].poi = (CHOOSE r \in found : TRUE).id]
    /\ UNCHANGED <<store, nextId, call, result, stats, cmd>>

\* the update branch: poi.save(update_fields=...) -> full_clean
ConcUpdateClean(i) ==
    /\ procs[i].pc = "update_clean"
    /\ IF full_clean(ProcRow(i), store)
       THEN procs' = [procs EXCEPT ![i].pc = "update"]
       ELSE ProcRaise(i)                                 \* ValidationError
    /\ UNCHANGED <<store, nextId, call, result, stats, cmd>>

\* save -> super().save(update_fields=...): one UPDATE of the seven fields
ConcUpdate(i) ==
    /\ procs[i].pc = "update"
    /\ IF \E r \in store : r.id = procs[i].poi
       THEN /\ store' = {IF r.id = procs[i].poi
                         THEN UpdatedRow(r, DerivedFields(procs[i].payload))
                         ELSE r : r \in store}
            /\ procs' = [procs EXCEPT ![i].pc = "done"]
       ELSE /\ ProcRaise(i)                              \* DatabaseError
            /\ UNCHANGED store
    /\ UNCHANGED <<nextId, call, result, stats, cmd>>

NextConc ==
    \E i \in ProcIds :
        \/ ConcGet(i)
        \/ ConcCreateClean(i)
        \/ ConcInsert(i)
        \/ ConcReget(i)
        \/ ConcUpdateClean(i)
        \/ ConcUpdate(i)

SpecConc == InitConc /\ [][NextConc]_vars

BothDone == \A i \in ProcIds : procs[i].pc = "done"

\* the seven mutable fields of a row are those upsert_poi derives from p
FieldsComeFrom(r, p) ==
    LET f == DerivedFields(p)
    IN  /\ r.name = f.name /\ r.latitude = f.latitude
        /\ r.longitude = f.longitude /\ r.category = f.category
        /\ r.ratings_raw = f.ratings_raw /\ r.avg_rating = f.avg_rating
        /\ r.description = f.description

\* C4: when two concurrent upsert_poi calls on one (external_id, source) key
\* have both ended, whatever the interleaving of their lookup, insert and
\* update statements, the store holds exactly one entity for the key, and its
\* seven mutable fields all come from one of the two records.
C4_ConcurrentUpsertsLeaveOneEntity ==
    BothDone =>
        LET rows == KeyRows(store, ConcKey[1], ConcKey[2])
        IN  /\ Cardinality(rows) = 1
            /\ \A r \in rows : \E i \in ProcIds : FieldsComeFrom(r, procs[i].payload)

\* both calls found no entity; one inserted, the other hit the unique index,
\* read the entity again and overwrote it with its own, different record
C4_Witness ==
    /\ BothDone
    /\ procs[1].created /\ ~procs[1].raised
    /\ procs[2].retried /\ ~procs[2].raised /\ ~procs[2].created
    /\ procs[1].payload = BasePayload("a", "csv")
    /\ procs[2].payload = OtherPayload("a", "csv")
    /\ \E r \in store : r.id = 1 /\ FieldsComeFrom(r, procs[2].payload)

-----------------------------------------------------------------------------
(* import_poi.py: Command._process_batch *)

Bump(stt, counter) == [stt EXCEPT ![counter] = @ + 1]

\* the result of a loop over a batch
LoopResult(st, nid, stt, counted, raised) ==
    [store |-> st, nextId |-> nid, stats |-> stt, counted |-> counted,
     raised |-> raised]

\* "for record in batch: try: upsert_poi(record) ... except: ...", from the
\* i-th record on.  counted[j] is the number of increments of created,
\* updated and errors made for the j-th record.  The loop ends early, with
\* raised, when a record fails and stop_on_error is set.
RECURSIVE UpsertLoop(_, _, _, _, _, _, _)
RECURSIVE AfterUpsert(_, _, _, _, _, _, _, _)
AfterUpsert(r, st, nid, stt, counted, batch, i, stop_on_error) ==
    IF r.raised
    THEN IF stop_on_error
         THEN LoopResult(st, nid, Bump(stt, "errors"), counted, TRUE)
         ELSE UpsertLoop(st, nid, Bump(stt, "errors"), counted, batch, i + 1,
                         stop_on_error)
    ELSE UpsertLoop(r.store, r.nextId,
                    Bump(stt, IF r.created THEN "created" ELSE "updated"),
                    counted, batch, i + 1, stop_on_error)

UpsertLoop(st, nid, stt, counted, batch, i, stop_on_error) ==
    IF i > Len(batch)
    THEN LoopResult(st, nid, stt, counted, FALSE)
    ELSE AfterUpsert(upsert_poi(st, nid, batch[i]), st, nid, stt,
                     [counted EXCEPT ![i] = @ + 1], batch, i, stop_on_error)

\* the except branch of _process_batch: when the loop inside
\* transaction.atomic() has raised, the transaction is rolled back, the
\* counters are not, and the same loop runs again without the transaction
Fallback(attempt, st, nid, batch, stop_on_error) ==
    IF ~attempt.raised
    THEN attempt
    ELSE UpsertLoop(st, nid, attempt.stats, attempt.counted, batch, 1,
                    stop_on_error)

\* _process_batch
ProcessBatch(st, nid, stt, counted, batch, stop_on_error) ==
    Fallback(UpsertLoop(st, nid, stt, counted, batch, 1, stop_on_error),
             st, nid, batch, stop_on_error)

\* _process_batch when the COMMIT that ends transaction.atomic() raises (the
\* database is locked by another connection, the disk is full): the block
\* has run to its end, the transaction is rolled back and the exception
\* reaches the except branch
ProcessBatchCommitFailing(st, nid, stt, counted, batch, stop_on_error) ==
    Fallback([UpsertLoop(st, nid, stt, counted, batch, 1, stop_on_error)
                 EXCEPT !.raised = TRUE],
             st, nid, batch, stop_on_error)

-----------------------------------------------------------------------------
(* _process_batch called on its own: one call on one batch, whose records  *)
(* _process_file has counted in records_ok                                 *)

MaxBatch == 3

\* a record that passes validate_poi_payload and that the model's
\* validation refuses (name longer than max_length)
ConstraintFailing == [BasePayload("c", "csv") EXCEPT !.name = Name256]

BatchRecords ==
    { BasePayload("a", "csv"), OtherPayload("a", "csv"), BasePayload("b", "csv"),
      ConstraintFailing }

Batches == SeqsUpTo(BatchRecords, MaxBatch) \ {<<>>}

BatchCmd(batch, stop_on_error) ==
    [pc |-> "batch", batch |-> batch, stop_on_error |-> stop_on_error,
     counted |-> [i \in 1..Len(batch) |-> 0], raised |-> FALSE]

InitBatch ==
    /\ \/ StoreInit
       \/ /\ store = {NewRow(1, "a", "csv", DerivedFields(EarlierPayload))}
          /\ nextId = 2
    /\ \E batch \in Batches, stop_on_error \in BOOLEAN :
          /\ cmd = BatchCmd(batch, stop_on_error)
          /\ stats = [ZeroStats EXCEPT !.records_ok = Len(batch)]
    /\ call = NoCall
    /\ result = NoResult
    /\ procs = NoProcs

BatchReturns(r) ==
    /\ store' = r.store
    /\ nextId' = r.nextId
    /\ stats' = r.stats
    /\ cmd' = [cmd EXCEPT !.pc = "returned", !.counted = r.counted,
                          !.raised = r.raised]

\* one call of _process_batch(batch, file_path)
ProcessBatchCall ==
    /\ cmd.pc = "batch"
    /\ BatchReturns(ProcessBatch(store, nextId, stats, cmd.counted, cmd.batch,
                                 cmd.stop_on_error))
    /\ UNCHANGED <<call, result, procs>>

\* the same call when the commit of the batch's transaction fails
ProcessBatchCommitFails ==
    /\ cmd.pc = "batch"
    /\ BatchReturns(ProcessBatchCommitFailing(store, nextId, stats, cmd.counted,
                                              cmd.batch, cmd.stop_on_error))
    /\ UNCHANGED <<call, result, procs>>

NextBatch ==
    \/ ProcessBatchCall
    \/ ProcessBatchCommitFails

SpecBatch == InitBatch /\ [][NextBatch]_vars

BatchReturned == cmd.pc = "returned"

\* the positions of the batch whose record fails at upsert, and the others
FailingAt(batch) == {i \in 1..Len(batch) : batch[i] = ConstraintFailing}
ValidAt(batch) == (1..Len(batch)) \ FailingAt(batch)

Stored(p) ==
    \E r \in store : SameKey(r, DerivedKey(p)[1], DerivedKey(p)[2])

\* C7: after _process_batch on a batch of N valid records and one record that
\* fails on a store constraint, at any position, every valid record of the
\* batch is stored and the errors counter has increased by exactly one.
C7_OneFailureOneError ==
    (BatchReturned /\ Cardinality(FailingAt(cmd.batch)) = 1)
        => /\ \A i \in ValidAt(cmd.batch) : Stored(cmd.batch[i])
           /\ stats.errors = 1

\* the same, for calls made with stop_on_error off
OneFailureOneErrorWithoutStop ==
    (BatchReturned /\ Cardinality(FailingAt(cmd.batch)) = 1 /\ ~cmd.stop_on_error)
        => /\ \A i \in ValidAt(cmd.batch) : Stored(cmd.batch[i])
           /\ stats.errors = 1
           /\ ~cmd.raised

\* C8: after _process_batch, fallback included and in both stop-on-error
\* modes, each record of the batch has added at most one in total to
\* created + updated + errors.
C8_EachRecordCountedOnce ==
    BatchReturned =>
        /\ \A i \in 1..Len(cmd.batch) : cmd.counted[i] <= 1
        /\ stats.created + stats.updated + stats.errors <= Len(cmd.batch)

-----------------------------------------------------------------------------
(* parsers.py and normalizers.py.  A csv row is a record of its cells.  A  *)
(* text cell is a string.  A cell or list item that is read as a number is *)
(* Num(v) when it is the number v or the text of v, Word when it is text   *)
(* that is no number ("invalid_lat"), Blank when it is empty or white      *)
(* space, and NoneCell when it is None.  Coordinates are written in tenths *)
(* of a micro-degree (40.7128 is 407128000), ratings in tenths.            *)

LatitudeMax == 900000000
LongitudeMax == 1800000000

Num(v) == [kind |-> "number", value |-> v]
Word == [kind |-> "word", value |-> 0]
Blank == [kind |-> "blank", value |-> 0]
NoneCell == [kind |-> "none", value |-> 0]

\* coerce_to_float(value) with its default of 0.0, which it returns for
\* None, for empty text and for text that float() refuses
coerce_to_float(cell) == IF cell.kind = "number" THEN cell.value ELSE 0

\* Decimal(str(x)).quantize(Decimal("0.000001")): tenths of a micro-degree to
\* micro-degrees, rounding half to even
QuantizeMicro(v) ==
    LET a == IF v < 0 THEN -v ELSE v
        q == a \div 10
        r == a % 10
        m == IF r > 5 \/ (r = 5 /\ q % 2 = 1) THEN q + 1 ELSE q
    IN  IF v < 0 THEN -m ELSE m

\* parse_coordinates: <<>> is (None, None)
parse_coordinates(latitude, longitude) ==
    LET lat_float == coerce_to_float(latitude)
        lon_float == coerce_to_float(longitude)
    IN  IF ~(-LatitudeMax <= lat_float /\ lat_float <= LatitudeMax)
        THEN <<>>
        ELSE IF ~(-LongitudeMax <= lon_float /\ lon_float <= LongitudeMax)
        THEN <<>>
        ELSE <<QuantizeMicro(lat_float), QuantizeMicro(lon_float)>>

\* the values given to coerce_to_float_list: None, a list, and text as
\* "{a,b}", as "[a, b]" or as "a, b", with the items between the separators
NoRatings == [form |-> "none", items |-> <<>>]
NativeList(items) == [form |-> "list", items |-> items]
Braces(items) == [form |-> "braces", items |-> items]
JsonArray(items) == [form |-> "json", items |-> items]
Separated(items) == [form |-> "separated", items |-> items]

\* "for item in ...: result.append(coerce_to_float(item))"; coerce_to_float
\* never raises, so the except branch that would skip an item is never taken
CoerceItems(items) == [i \in 1..Len(items) |-> coerce_to_float(items[i])]

\* "items = value.split(separator)": items that are empty once stripped are
\* passed over
SplitItems(items) ==
    LET NotBlank(item) == item.kind # "blank"
    IN  CoerceItems(SelectSeq(items, NotBlank))

\* json.loads accepts the text of a list of numbers
JsonLoads(items) == \A i \in 1..Len(items) : items[i].kind = "number"

coerce_to_float_list(value) ==
    CASE value.form = "none" -> <<>>
      [] value.form = "list" -> CoerceItems(value.items)
      [] value.form \in {"braces", "json"} ->
            IF JsonLoads(value.items) THEN CoerceItems(value.items)
            ELSE SplitItems(value.items)
      [] OTHER -> SplitItems(value.items)

\* PointInPayload: what the Pydantic schema accepts
SchemaAccepts(record) ==
    /\ 1 <= StrLen(record.external_id) /\ StrLen(record.external_id) <= MaxExternalIdLen
    /\ record.source \in {"csv", "json", "xml"}
    /\ 1 <= StrLen(record.name) /\ StrLen(record.name) <= MaxNameLen
    /\ -90000000 <= record.latitude[1] /\ record.latitude[1] <= 90000000
    /\ -180000000 <= record.longitude[1] /\ record.longitude[1] <= 180000000
    /\ 1 <= StrLen(record.category) /\ StrLen(record.category) <= MaxCategoryLen
    /\ \A i \in 1..Len(record.ratings.items) :
          RatingMin <= record.ratings.items[i] /\ record.ratings.items[i] <= RatingMax

\* PointInPayload.validate_ratings, the field validator that runs on the
\* ratings the type List[Rating] has accepted
validate_ratings(v) ==
    [i \in 1..Len(v) |-> IF v[i] < 0 THEN 0 ELSE IF v[i] > 50 THEN 50 ELSE v[i]]

\* validate_poi_record: <<>> when PointInPayload(**data) raises
\* ValidationError, else the validated record
validate_poi_record(data) ==
    IF SchemaAccepts(data)
    THEN <<[data EXCEPT !.ratings = List(validate_ratings(data.ratings.items))]>>
    ELSE <<>>

\* safe_validate_poi_record and model_dump: <<>> for None
safe_validate_poi_record(data) == validate_poi_record(data)

\* what the three parsers do with the cells of one row, object or element:
\* <<>> when it is skipped, <<record>> when a record is yielded
NormalizedRecord(id, name, coordinates, category, ratings, description, source) ==
    IF normalize_string(id, "") = "" THEN <<>>
    ELSE IF normalize_string(name, "") = "" THEN <<>>
    ELSE IF coordinates = <<>> THEN <<>>
    ELSE LET record_data ==
                 [external_id |-> normalize_string(id, ""),
                  name |-> normalize_string(name, ""),
                  latitude |-> <<coordinates[1]>>,
                  longitude |-> <<coordinates[2]>>,
                  category |-> normalize_string(category, "Unknown"),
                  ratings |-> List(ratings),
                  description |-> normalize_string(description, ""),
                  source |-> source]
         IN  safe_validate_poi_record(record_data)

\* the body of parse_csv's loop for one row
parse_csv_row(row) ==
    NormalizedRecord(row.poi_id, row.poi_name,
                     parse_coordinates(row.poi_latitude, row.poi_longitude),
                     row.poi_category, coerce_to_float_list(row.poi_ratings),
                     row.poi_description, "csv")

\* the value of the key "coordinates" of a JSON object: the key is absent,
\* or its value is an array of cells, an object whose keys latitude and
\* longitude hold the two cells (a key the object lacks reads as None), or
\* anything else (a number, a string, null)
NoCoordinates == [shape |-> "absent", items |-> <<>>]
CoordinateArray(items) == [shape |-> "array", items |-> items]
CoordinateObject(latitude, longitude) ==
    [shape |-> "object", items |-> <<latitude, longitude>>]
CoordinateScalar == [shape |-> "scalar", items |-> <<>>]

\* a JSON object is a record of the keys the program reads: those of the
\* documented format (id, name, coordinates, category, ratings, description)
\* and those of a payload (external_id, source, latitude, longitude); a key
\* the object does not have reads as None.  Its ratings are a list of numbers
JsonObject(id, name, coordinates, category, ratings) ==
    [id |-> id, name |-> name, coordinates |-> coordinates,
     category |-> category, ratings |-> List(ratings), description |-> NoneS,
     external_id |-> NoneS, source |-> NoneS, latitude |-> <<>>,
     longitude |-> <<>>]

\* a JSON object with the keys of a payload
PayloadObject(payload) ==
    [id |-> NoneS, name |-> payload.name, coordinates |-> NoCoordinates,
     category |-> payload.category, ratings |-> payload.ratings,
     description |-> payload.description, external_id |-> payload.external_id,
     source |-> payload.source, latitude |-> payload.latitude,
     longitude |-> payload.longitude]

\* the coordinates _parse_json_object reads: the first two items of a list
\* of two items or more, the latitude and longitude of a dict;
\* obj.get("coordinates", {}) of an object without coordinates is an empty
\* dict, whose latitude and longitude are None.  <<>> for "Invalid
\* coordinates format"
json_coordinates(coordinates) ==
    CASE coordinates.shape = "array" /\ Len(coordinates.items) >= 2 ->
            parse_coordinates(coordinates.items[1], coordinates.items[2])
      [] coordinates.shape = "object" ->
            parse_coordinates(coordinates.items[1], coordinates.items[2])
      [] coordinates.shape = "absent" -> parse_coordinates(NoneCell, NoneCell)
      [] OTHER -> <<>>

_parse_json_object(obj) ==
    NormalizedRecord(obj.id, obj.name, json_coordinates(obj.coordinates),
                     obj.category,
                     coerce_to_float_list(
                         NativeList([i \in 1..Len(obj.ratings.items) |->
                                        Num(obj.ratings.items[i])])),
                     obj.description, "json")

\* the body of parse_xml's loop for one element, whose children carry the
\* cells of a csv row under the tags pid, pname, platitude, ...
parse_xml_element(elem) ==
    NormalizedRecord(elem.poi_id, elem.poi_name,
                     parse_coordinates(elem.poi_latitude, elem.poi_longitude),
                     elem.poi_category, coerce_to_float_list(elem.poi_ratings),
                     elem.poi_description, "xml")

parse_row(row, source) ==
    CASE source = "csv" -> parse_csv_row(row)
      [] source = "json" -> _parse_json_object(row)
      [] OTHER -> parse_xml_element(row)

\* the loop of a parser over the rows, objects or elements of a file: the
\* records yielded, each with the number of its row
RECURSIVE parse_rows(_, _)
parse_rows(rows, source) ==
    IF rows = <<>> THEN <<>>
    ELSE LET n == Len(rows)
             yielded == parse_row(rows[n], source)
             before == parse_rows(SubSeq(rows, 1, n - 1), source)
         IN  IF yielded = <<>> THEN before
             ELSE Append(before, [row |-> n, record |-> yielded[1]])

\* the rows csv.DictReader delivers before the iteration over it raises,
\* outside the try of the loop's body.  The text of the file is decoded in
\* chunks of 8192 bytes and a file of a few rows is one chunk: a row that is
\* not UTF-8 makes the first read raise UnicodeDecodeError and no row is
\* delivered.  A row with a field longer than csv.field_size_limit() makes
\* the reader raise csv.Error at that row, after the rows before it
RECURSIVE RowsRead(_)
RowsRead(rows) ==
    IF \E i \in 1..Len(rows) : rows[i].bytes = "not utf-8" THEN <<>>
    ELSE IF rows = <<>> \/ rows[1].bytes = "field over limit" THEN <<>>
    ELSE <<rows[1]>> \o RowsRead(Tail(rows))

\* parse_csv: a file that cannot be opened or read is logged
\* ("Error reading CSV file") and nothing is yielded
parse_csv(file) ==
    IF file.fault # "none" THEN <<>> ELSE parse_rows(RowsRead(file.rows), "csv")

\* parse_json: the same for "Error reading JSON file"; content that is no
\* JSON document is read line by line and no line yields an object
parse_json(file) ==
    IF file.fault # "none" THEN <<>> ELSE parse_rows(file.rows, "json")

\* parse_xml: ET.ParseError, then the failure of the cleaned content, is
\* logged and the generator returns
parse_xml(file) ==
    IF file.fault # "none" THEN <<>> ELSE parse_rows(file.rows, "xml")

-----------------------------------------------------------------------------
(* upsert.py: validate_poi_payload, the set of fields it reports *)

validate_poi_payload(payload) ==
    {f \in {"external_id", "source", "name", "latitude", "longitude", "ratings"} :
        CASE f = "external_id" -> normalize_string(payload.external_id, "") = ""
          [] f = "source" ->
                normalize_string(payload.source, "") \notin {"csv", "json", "xml"}
          [] f = "name" -> normalize_string(payload.name, "") = ""
          [] f = "latitude" ->
                \/ payload.latitude = <<>>
                \/ ~(-90000000 <= payload.latitude[1] /\ payload.latitude[1] <= 90000000)
          [] f = "longitude" ->
                \/ payload.longitude = <<>>
                \/ ~(-180000000 <= payload.longitude[1]
                     /\ payload.longitude[1] <= 180000000)
          [] f = "ratings" ->
                \/ ~payload.ratings.isList
                \/ \E i \in 1..Len(payload.ratings.items) :
                      ~(RatingMin <= payload.ratings.items[i]
                        /\ payload.ratings.items[i] <= RatingMax)}

-----------------------------------------------------------------------------
(* import_poi.py: Command.handle, _discover_files, _process_file *)

\* a path of the command line: a file with an extension and its rows,
\* objects or elements, or a path that does not exist.  A file may have a
\* fault: it cannot be opened ("unreadable") or its content is not CSV, JSON
\* or XML at all ("malformed")
CsvFile(rows) == [kind |-> "file", ext |-> ".csv", rows |-> rows, fault |-> "none"]
JsonFile(objects) ==
    [kind |-> "file", ext |-> ".json", rows |-> objects, fault |-> "none"]
XmlFile(elements) ==
    [kind |-> "file", ext |-> ".xml", rows |-> elements, fault |-> "none"]
TextFile == [kind |-> "file", ext |-> ".txt", rows |-> <<>>, fault |-> "none"]
MissingPath == [kind |-> "missing", ext |-> "", rows |-> <<>>, fault |-> "none"]
Faulty(file, fault) == [file EXCEPT !.rows = <<>>, !.fault = fault]

SupportedExtensions == {".csv", ".json", ".xml"}

\* _discover_files: the files found, and among them the supported ones
FoundFiles(paths) == LET IsFile(p) == p.kind = "file" IN SelectSeq(paths, IsFile)

SupportedFiles(paths) ==
    LET IsSupported(p) == p.ext \in SupportedExtensions
    IN  SelectSeq(FoundFiles(paths), IsSupported)

\* _stream_parse_json when "import ijson" succeeds: open(file_path, "rb")
\* raises for a file that cannot be opened, and the exception leaves the
\* generator
StreamRaises(file, ijson) ==
    file.ext = ".json" /\ ijson /\ file.fault = "unreadable"

\* _stream_parse_json: with ijson the objects of the array are yielded as
\* they stand; on ijson.JSONError, and without ijson, parse_json is used
_stream_parse_json(file, ijson) ==
    IF ijson /\ file.fault = "none"
    THEN [i \in 1..Len(file.rows) |-> [row |-> i, record |-> file.rows[i]]]
    ELSE parse_json(file)

\* the records the parser selected for a file yields to _process_file
Records(file, ijson) ==
    CASE file.ext = ".csv" -> parse_csv(file)
      [] file.ext = ".json" -> _stream_parse_json(file, ijson)
      [] OTHER -> parse_xml(file)

\* len(batch) >= self.batch_size
BatchOverfull(batch, batch_size) == Len(batch) > batch_size

BatchFull(batch, batch_size) == Len(batch) >= batch_size

\* the loop of handle moves to the next file, or leaves the loop
NextFile(c) ==
    IF c.file < Len(c.files)
    THEN [c EXCEPT !.file = @ + 1, !.rec = 1, !.batch = <<>>, !.batchAt = <<>>]
    ELSE [c EXCEPT !.pc = "summary", !.batch = <<>>, !.batchAt = <<>>]

\* the command and the store after a step of the command
Outcome(c, stt, st, nid) == [cmd |-> c, stats |-> stt, store |-> st, nextId |-> nid]

\* handle without the break of its except branch
AbortFileWithoutBreak(c, stt, st, nid) ==
    IF c.stop_on_error
    THEN Outcome([NextFile(c) EXCEPT !.stopped = TRUE],
                 Bump(Bump(stt, "files_skipped"), "errors"), st, nid)
    ELSE Outcome(NextFile(c), Bump(stt, "files_skipped"), st, nid)

\* an except branch of _process_file that does not count the file
AbortFileUncounted(c, stt, st, nid) ==
    IF c.stop_on_error
    THEN Outcome([c EXCEPT !.pc = "summary", !.stopped = TRUE,
                           !.batch = <<>>, !.batchAt = <<>>],
                 Bump(stt, "errors"), st, nid)
    ELSE Outcome(NextFile(c), stt, st, nid)

\* an exception inside _process_file's try: the file is counted as skipped;
\* with stop_on_error it is raised again, handle counts an error and breaks
AbortFile(c, stt, st, nid) ==
    IF c.stop_on_error
    THEN Outcome([c EXCEPT !.pc = "summary", !.stopped = TRUE,
                           !.batch = <<>>, !.batchAt = <<>>],
                 Bump(Bump(stt, "files_skipped"), "errors"), st, nid)
    ELSE Outcome(NextFile(c), Bump(stt, "files_skipped"), st, nid)

\* self._process_batch(batch, file_path) has returned r or has raised; c is
\* the command if it returned, at the end of the file or not
AfterBatch(r, c, end_of_file) ==
    IF r.raised
    THEN AbortFile(c, r.stats, r.store, r.nextId)
    ELSE IF end_of_file
    THEN Outcome(NextFile(c), Bump(r.stats, "files_processed"), r.store, r.nextId)
    ELSE Outcome(c, r.stats, r.store, r.nextId)

\* the batch is handed to _process_batch; batchAt says which records it holds
HandBatch(c, stt, st, nid, batch, batchAt, end_of_file) ==
    AfterBatch(ProcessBatch(st, nid, stt, [i \in 1..Len(batch) |-> 0], batch,
                            c.stop_on_error),
               [c EXCEPT !.handed = Append(@, batchAt),
                         !.batch = <<>>, !.batchAt = <<>>],
               end_of_file)

\* "if not self.dry_run: batch.append(record) ..." for a valid record
KeepRecord(c, stt, st, nid, batch, batchAt) ==
    IF BatchFull(batch, c.batch_size)
    THEN HandBatch(c, stt, st, nid, batch, batchAt, FALSE)
    ELSE Outcome([c EXCEPT !.batch = batch, !.batchAt = batchAt], stt, st, nid)

\* the loop body without "if not self.dry_run"
process_record_in_any_mode(record, tag, c, stt, st, nid) ==
    IF validate_poi_payload(record) # {}
    THEN IF c.stop_on_error
         THEN AbortFile(c, Bump(stt, "records_skipped"), st, nid)
         ELSE Outcome(c, Bump(stt, "records_skipped"), st, nid)
    ELSE KeepRecord(c, Bump(stt, "records_ok"), st, nid,
                    Append(c.batch, record), Append(c.batchAt, tag))

\* one turn of "for record in records_iterator"; c is the command with the
\* iterator advanced
process_record(record, tag, c, stt, st, nid) ==
    IF validate_poi_payload(record) # {}
    THEN IF c.stop_on_error
         THEN AbortFile(c, Bump(stt, "records_skipped"), st, nid)
         ELSE Outcome(c, Bump(stt, "records_skipped"), st, nid)
    ELSE IF c.dry_run
    THEN Outcome(c, Bump(stt, "records_ok"), st, nid)
    ELSE KeepRecord(c, Bump(stt, "records_ok"), st, nid,
                    Append(c.batch, record), Append(c.batchAt, tag))

\* "if batch and not self.dry_run: ...; files_processed += 1"
end_of_records(c, stt, st, nid) ==
    IF c.batch # <<>> /\ ~c.dry_run
    THEN HandBatch(c, stt, st, nid, c.batch, c.batchAt, TRUE)
    ELSE Outcome(NextFile(c), Bump(stt, "files_processed"), st, nid)

Becomes(o) ==
    /\ cmd' = o.cmd
    /\ stats' = o.stats
    /\ store' = o.store
    /\ nextId' = o.nextId
    /\ UNCHANGED <<call, result, procs>>

\* _discover_files, and handle up to its loop over the files
Discovered(c, stt, found, supported) ==
    Outcome(IF supported = <<>>
            THEN [c EXCEPT !.pc = "done", !.files = supported]
            ELSE [c EXCEPT !.pc = "file", !.files = supported,
                           !.file = 1, !.rec = 1],
            [stt EXCEPT !.files_seen = @ + Len(found),
                        !.files_skipped = @ + Len(found) - Len(supported)],
            store, nextId)

Start ==
    /\ cmd.pc = "start"
    /\ Becomes(Discovered(cmd, stats, FoundFiles(cmd.paths),
                          SupportedFiles(cmd.paths)))

RecordsLeft(records) == cmd.rec <= Len(records)

\* _process_file: the parser raises when the loop asks for its first record
ParserRaises ==
    /\ cmd.pc = "file"
    /\ StreamRaises(cmd.files[cmd.file], cmd.ijson)
    /\ Becomes(AbortFile(cmd, stats, store, nextId))

\* _process_file: one turn of "for record in records_iterator"
ProcessRecord ==
    /\ cmd.pc = "file"
    /\ ~StreamRaises(cmd.files[cmd.file], cmd.ijson)
    /\ RecordsLeft(Records(cmd.files[cmd.file], cmd.ijson))
    /\ Becomes(process_record(
                   Records(cmd.files[cmd.file], cmd.ijson)[cmd.rec].record,
                   <<cmd.file, cmd.rec>>,
                   [cmd EXCEPT !.rec = @ + 1], stats, store, nextId))

\* _process_file after the loop: the remaining batch, files_processed
EndOfFile ==
    /\ cmd.pc = "file"
    /\ ~StreamRaises(cmd.files[cmd.file], cmd.ijson)
    /\ ~RecordsLeft(Records(cmd.files[cmd.file], cmd.ijson))
    /\ Becomes(end_of_records(cmd, stats, store, nextId))

\* _print_summary writes the error count in the line "Errors: n", which it
\* prints unless the run is a dry run, and in its last line when n > 0
ErrorCountPrinted(dry_run, stt) == ~dry_run \/ stt.errors > 0

\* handle after its loop: _print_summary, and the return to the caller
Finish ==
    /\ cmd.pc = "summary"
    /\ cmd' = [cmd EXCEPT !.pc = "done", !.summary = TRUE,
                          !.errors_shown = ErrorCountPrinted(cmd.dry_run, stats)]
    /\ UNCHANGED <<store, nextId, stats, call, result, procs>>

NextImport ==
    \/ Start
    \/ ParserRaises
    \/ ProcessRecord
    \/ EndOfFile
    \/ Finish

-----------------------------------------------------------------------------
(* Runs of the command *)

MaxRows == 3
MaxBatchSize == 3

CsvRow(poi_id, poi_name, poi_latitude, poi_longitude, poi_category, poi_ratings) ==
    [poi_id |-> poi_id, poi_name |-> poi_name, poi_latitude |-> poi_latitude,
     poi_longitude |-> poi_longitude, poi_category |-> poi_category,
     poi_ratings |-> poi_ratings, poi_description |-> NoneS, bytes |-> "utf-8"]

\* rows that parse_csv turns into records
GoodRowA ==
    CsvRow("a", "Cafe", Num(407128000), Num(-740060000), "restaurant",
           Braces(<<Num(45), Num(38), Num(42)>>))
GoodRowA2 ==
    CsvRow("a", "Hotel", Num(407589004), Num(-739851005), "hotel",
           Braces(<<Num(35), Num(40)>>))
GoodRowB ==
    CsvRow("b", "Park", Num(515074000), Num(-1278000), "", Separated(<<>>))

\* rows with a required field missing or with invalid coordinates
RowMissingName ==
    CsvRow("c", "", Word, Word, "invalid_category", Separated(<<Word>>))
RowMissingId ==
    CsvRow(" ", "Bar", Num(407128000), Num(-740060000), "bar",
           Separated(<<Num(30), Num(40)>>))
RowLatitudeOutOfRange ==
    CsvRow("c", "Bar", Num(950000000), Num(-740060000), "bar",
           Separated(<<Num(30), Num(40)>>))
RowCoordinatesNotNumbers ==
    CsvRow("c", "Bar", Word, Word, "bar", Separated(<<Num(30), Num(40)>>))

BadRows ==
    {RowMissingName, RowMissingId, RowLatitudeOutOfRange, RowCoordinatesNotNumbers}

\* a valid row, a bad row, a further valid row
BadRowFiles == {CsvFile(<<GoodRowA, bad, GoodRowB>>) : bad \in BadRows}

CsvFiles ==
    {CsvFile(rows) :
        rows \in SeqsUpTo({GoodRowA, GoodRowA2, GoodRowB, RowMissingName}, MaxRows)}
    \cup BadRowFiles

\* JSON objects in the documented format
ObjectA ==
    JsonObject("a", "Cafe", CoordinateObject(Num(407128000), Num(-740060000)),
               "restaurant", <<45, 38, 42>>)
ObjectB ==
    JsonObject("b", "Hotel", CoordinateArray(<<Num(407589000), Num(-739851000)>>),
               "hotel", <<35, 40, 28>>)
ObjectNoCoordinates == JsonObject("d", "Bar", NoCoordinates, "bar", <<30, 40>>)
ObjectMissingName ==
    JsonObject("c", NoneS, CoordinateObject(Num(407128000), Num(-740060000)),
               "bar", <<>>)

\* JSON objects with the keys of a payload: two valid ones, one whose
\* longitude is out of range, one whose name the store refuses
PayloadObjectA == PayloadObject(BasePayload("a", "json"))
PayloadObjectA2 == PayloadObject(OtherPayload("a", "json"))
PayloadObjectB == PayloadObject(OtherPayload("b", "json"))
PayloadObjectBadLongitude ==
    PayloadObject([BasePayload("c", "json") EXCEPT !.longitude = <<181000000>>])
PayloadObjectLongName ==
    PayloadObject([BasePayload("c", "json") EXCEPT !.name = Name256])
PayloadObjectALongName ==
    PayloadObject([OtherPayload("a", "json") EXCEPT !.name = Name256])

JsonFiles ==
    {JsonFile(objects) :
        objects \in SeqsUpTo({PayloadObjectA, PayloadObjectB,
                               PayloadObjectBadLongitude, PayloadObjectLongName},
                              MaxRows - 1)}
    \cup {JsonFile(<<ObjectNoCoordinates>>), JsonFile(<<ObjectA, ObjectMissingName>>),
          JsonFile(<<ObjectA, PayloadObjectA>>), JsonFile(<<ObjectA, ObjectB>>),
          JsonFile(<<PayloadObjectA, PayloadObjectALongName>>),
          JsonFile(<<PayloadObjectA, PayloadObjectA2, PayloadObjectLongName>>),
          JsonFile(<<PayloadObjectA, PayloadObjectLongName, PayloadObjectB>>),
          JsonFile(<<PayloadObjectA, PayloadObjectB, PayloadObjectBadLongitude>>)}

XmlFiles == {XmlFile(<<GoodRowA>>), XmlFile(<<GoodRowB, RowMissingName, GoodRowA2>>)}

\* files that cannot be opened and files whose content is malformed
FaultyFiles ==
    {Faulty(f, fault) : f \in {CsvFile(<<>>), JsonFile(<<>>), XmlFile(<<>>)},
                        fault \in {"unreadable", "malformed"}}

PathLists ==
    {<<f>> : f \in CsvFiles \cup JsonFiles \cup XmlFiles \cup FaultyFiles}
    \cup {<<>>, <<TextFile>>, <<MissingPath>>}
    \cup {<<f, g>> : f \in {CsvFile(<<GoodRowA>>), TextFile, MissingPath,
                            JsonFile(<<PayloadObjectA, PayloadObjectBadLongitude>>),
                            JsonFile(<<PayloadObjectB, PayloadObjectLongName>>)}
                           \cup FaultyFiles,
                     g \in {CsvFile(<<GoodRowB, GoodRowA2>>), TextFile}}

\* "import ijson" is only reached for a .json file
IjsonChoices(paths) ==
    IF \E i \in 1..Len(paths) : paths[i].ext = ".json" THEN BOOLEAN ELSE {FALSE}

\* ijson says whether "import ijson" succeeds where the command runs
NewCmd(paths, dry_run, batch_size, stop_on_error, ijson) ==
    [pc |-> "start", paths |-> paths, dry_run |-> dry_run,
     batch_size |-> batch_size, stop_on_error |-> stop_on_error,
     ijson |-> ijson,
     files |-> <<>>, file |-> 0, rec |-> 0, batch |-> <<>>, batchAt |-> <<>>,
     handed |-> <<>>, stopped |-> FALSE, summary |-> FALSE,
     errors_shown |-> FALSE, raised |-> FALSE]

InitImport ==
    /\ StoreInit
    /\ stats = ZeroStats
    /\ \E paths \in PathLists, dry_run \in BOOLEAN,
          batch_size \in 1..MaxBatchSize, stop_on_error \in BOOLEAN :
          \E ijson \in IjsonChoices(paths) :
             cmd = NewCmd(paths, dry_run, batch_size, stop_on_error, ijson)
    /\ call = NoCall
    /\ result = NoResult
    /\ procs = NoProcs

SpecImport == InitImport /\ [][NextImport]_vars

-----------------------------------------------------------------------------
(* Properties of the command under SpecImport *)

\* the records of the discovered files that pass validate_poi_payload, as
\* <<file, record>> positions
ValidRecordsAt ==
    {t \in UNION {{<<f, i>> : i \in 1..Len(Records(cmd.files[f], cmd.ijson))} :
                    f \in 1..Len(cmd.files)} :
        validate_poi_payload(Records(cmd.files[t[1]], cmd.ijson)[t[2]].record) = {}}

RecordAt(t) == Records(cmd.files[t[1]], cmd.ijson)[t[2]].record

\* the places of the batches handed to _process_batch that hold a record
HandedPlaces(t) ==
    {p \in UNION {{<<b, j>> : j \in 1..Len(cmd.handed[b])} :
                    b \in 1..Len(cmd.handed)} :
        cmd.handed[p[1]][p[2]] = t}

RunEnded == cmd.pc \in {"summary", "done"} /\ cmd.files # <<>>

\* C9: whatever the batch size and the file, no batch handed to
\* _process_batch is empty or holds more than batch_size records and no
\* record is handed twice; when a non-dry-run import has run to its end every
\* valid record has been handed in exactly one batch, the partial batch at
\* the end of the stream included; and if no error was counted the store
\* holds one entity for each distinct key of the valid records and no other.
C9_EachValidRecordInOneBatch ==
    /\ \A b \in 1..Len(cmd.handed) :
          1 <= Len(cmd.handed[b]) /\ Len(cmd.handed[b]) <= cmd.batch_size
    /\ cmd.pc # "start" =>
          \A t \in ValidRecordsAt : Cardinality(HandedPlaces(t)) <= 1
    /\ (RunEnded /\ ~cmd.dry_run /\ ~cmd.stopped) =>
          /\ \A t \in ValidRecordsAt : Cardinality(HandedPlaces(t)) = 1
          /\ stats.errors = 0 =>
                /\ {<<r.external_id, r.source>> : r \in store}
                     = {DerivedKey(RecordAt(t)) : t \in ValidRecordsAt}
                /\ Cardinality(store)
                     = Cardinality({DerivedKey(RecordAt(t)) : t \in ValidRecordsAt})

\* a file of three valid rows on two keys, imported with batch size 2: a full
\* batch, then the partial batch, and two entities
C9_Witness ==
    /\ cmd.pc = "done"
    /\ ~cmd.dry_run
    /\ cmd.batch_size = 2
    /\ cmd.paths = <<CsvFile(<<GoodRowA, GoodRowB, GoodRowA2>>)>>
    /\ cmd.handed = << << <<1, 1>>, <<1, 2>> >>, << <<1, 3>> >> >>
    /\ Cardinality(store) = 2
    /\ stats.created = 2 /\ stats.updated = 1 /\ stats.errors = 0

\* C10: with --stop-on-error, on a file made of a valid row, a row missing
\* poi_id or poi_name or with invalid coordinates, and a further valid row,
\* the run ends with an error raised to the caller and the row after the bad
\* row is not stored.
C10_StopOnErrorAbortsAtBadRow ==
    ( /\ cmd.pc = "done"
      /\ cmd.stop_on_error /\ ~cmd.dry_run
      /\ \E f \in BadRowFiles : cmd.paths = <<f>> )
    => /\ cmd.raised
       /\ ~Stored(parse_csv_row(GoodRowB)[1])

\* a csv row or an xml element with a required field missing or with a
\* coordinate out of its range
RowFailsValidation(row) ==
    \/ normalize_string(row.poi_id, "") = ""
    \/ normalize_string(row.poi_name, "") = ""
    \/ /\ row.poi_latitude.kind = "number"
       /\ ~(-LatitudeMax <= row.poi_latitude.value
            /\ row.poi_latitude.value <= LatitudeMax)
    \/ /\ row.poi_longitude.kind = "number"
       /\ ~(-LongitudeMax <= row.poi_longitude.value
            /\ row.poi_longitude.value <= LongitudeMax)

\* the places <<file, row>> of such rows in the discovered files
FailingRowsAt ==
    {t \in UNION {{<<f, i>> : i \in 1..Len(cmd.files[f].rows)} :
                    f \in 1..Len(cmd.files)} :
        RowFailsValidation(cmd.files[t[1]].rows[t[2]])}

OnlyRowFiles == \A f \in 1..Len(cmd.files) : cmd.files[f].ext \in {".csv", ".xml"}

\* C11: when a run over csv and xml files has ended, records_skipped is the
\* number of their rows that have a required field missing or a coordinate
\* out of range; with --stop-on-error such a row has aborted its file.
C11_FailedValidationCountsOneSkip ==
    (cmd.pc = "done" /\ cmd.files # <<>> /\ OnlyRowFiles) =>
        /\ ~cmd.stop_on_error =>
              stats.records_skipped = Cardinality(FailingRowsAt)
        /\ (cmd.stop_on_error /\ FailingRowsAt # {}) =>
              cmd.stopped /\ stats.files_skipped >= 1

\* the step in which an exception leaves _process_file under --stop-on-error:
\* its except branch counts the file as skipped before it raises again
FileAborts ==
    /\ cmd.pc = "file"
    /\ cmd.stop_on_error
    /\ stats'.files_skipped = stats.files_skipped + 1

\* every entity of the store is still there, with its id and its key
EntitiesKept ==
    \A r \in store :
        \E q \in store' :
            q.id = r.id /\ q.external_id = r.external_id /\ q.source = r.source

\* C12: with --stop-on-error, the step that aborts a file leaves the loop over
\* the files without starting the next file and keeps every entity that was
\* in the store; once the loop is left no file is started and the store does
\* not change any more.
C12_StopOnErrorStartsNoLaterFile ==
    [][ /\ FileAborts =>
              /\ cmd'.pc = "summary"
              /\ cmd'.file = cmd.file
              /\ stats'.files_processed = stats.files_processed
              /\ EntitiesKept
        /\ cmd.pc \in {"summary", "done"} =>
              /\ cmd'.pc = "done"
              /\ cmd'.file = cmd.file
              /\ store' = store
              /\ stats' = stats ]_vars

\* a run with --stop-on-error and batch size 1 over two files: the first
\* object of the first file is committed, its second object fails validation,
\* and the second file is never started
C12_Witness ==
    /\ cmd.pc = "done"
    /\ cmd.stop_on_error /\ ~cmd.dry_run /\ cmd.ijson /\ cmd.batch_size = 1
    /\ cmd.paths = <<JsonFile(<<PayloadObjectA, PayloadObjectBadLongitude>>),
                     CsvFile(<<GoodRowB, GoodRowA2>>)>>
    /\ Len(cmd.files) = 2 /\ cmd.file = 1
    /\ stats.files_skipped = 1 /\ stats.files_processed = 0
    /\ stats.records_skipped = 1 /\ stats.errors = 1
    /\ {<<r.external_id, r.source>> : r \in store} = {<<"a", "json">>}

\* the discovered files that cannot be opened or parsed, and the paths of the
\* command line that do not exist
FaultyFilesAt == {f \in 1..Len(cmd.files) : cmd.files[f].fault # "none"}
MissingPathsAt == {i \in 1..Len(cmd.paths) : cmd.paths[i].kind = "missing"}

\* C13: when a run without --stop-on-error has ended, every file that was
\* missing, unreadable or malformed is counted in files_skipped and none of
\* them in files_processed, and the loop has gone through all the files.
C13_FaultyFileCountedAsSkipped ==
    (cmd.pc = "done" /\ ~cmd.stop_on_error /\ cmd.files # <<>>) =>
        /\ stats.files_skipped
             >= Cardinality(FaultyFilesAt) + Cardinality(MissingPathsAt)
        /\ stats.files_processed <= Len(cmd.files) - Cardinality(FaultyFilesAt)
        /\ cmd.file = Len(cmd.files)

\* C14: in a --dry-run run no step changes the store or hands a batch to
\* _process_batch, and nothing is counted as created, updated or failed by a
\* batch; when the run has gone through the files, every record that passes
\* validate_poi_payload has been counted in records_ok.
C14_DryRunLeavesStoreUnchanged ==
    /\ [][ cmd.dry_run =>
              /\ store' = store
              /\ nextId' = nextId
              /\ cmd'.handed = <<>>
              /\ stats'.created = 0 /\ stats'.updated = 0 ]_vars
    /\ []( (cmd.dry_run /\ cmd.pc = "done" /\ ~cmd.stopped /\ cmd.files # <<>>) =>
              stats.records_ok = Cardinality(ValidRecordsAt) )

\* a dry run over a csv file of three valid rows: three records counted, an
\* empty store
C14_Witness ==
    /\ cmd.pc = "done"
    /\ cmd.dry_run /\ cmd.batch_size = 2
    /\ cmd.paths = <<CsvFile(<<GoodRowA, GoodRowB, GoodRowA2>>)>>
    /\ stats.records_ok = 3 /\ stats.files_processed = 1
    /\ cmd.handed = <<>>
    /\ store = {}

-----------------------------------------------------------------------------
(* The schema and the normalizers called on their own: SpecNormalize.  call *)
(* holds the function and its argument, result what it returned.            *)

MaxItems == 3

\* records given to validate_poi_record: a valid record with each rating
\* list, and records with another field invalid
SchemaRecords ==
    {[BasePayload("a", "json") EXCEPT !.ratings = List(r)] : r \in RatingLists}
    \cup {[BasePayload("a", "json") EXCEPT !.name = Name256,
                                           !.ratings = List(<<60, 30>>)],
          [BasePayload("a", "json") EXCEPT !.latitude = <<95000000>>,
                                           !.ratings = List(<<60, 30>>)]}

\* values given to coerce_to_float_list: None, lists whose items are
\* numbers, text that is no number or None, and the three kinds of text with
\* items that are numbers, text that is no number or empty
RatingValues ==
    {NoRatings}
    \cup {NativeList(items) :
            items \in SeqsUpTo({Num(45), Num(30), Word, NoneCell}, MaxItems)}
    \cup UNION {{Braces(items), JsonArray(items), Separated(items)} :
                  items \in SeqsUpTo({Num(45), Num(30), Word, Blank}, MaxItems)}

\* cells given to parse_coordinates as a latitude or a longitude
CoordinateCells ==
    {Num(v) : v \in {-1800000001, -1800000000, -900000001, -900000000, -5, 0,
                     15, 25, 401234565, 401234575, 407128000, 899999995,
                     900000000, 900000001, 1799999995, 1800000000, 1800000001,
                     2000000000}}
    \cup {Word, Blank, NoneCell}

NormalizeCalls ==
    {[fn |-> "validate_poi_record", arg |-> data] : data \in SchemaRecords}
    \cup {[fn |-> "coerce_to_float_list", arg |-> value] : value \in RatingValues}
    \cup {[fn |-> "parse_coordinates",
           arg |-> [latitude |-> latitude, longitude |-> longitude]] :
            latitude \in CoordinateCells, longitude \in CoordinateCells}

InitNormalize ==
    /\ StoreInit
    /\ call \in {<<c>> : c \in NormalizeCalls}
    /\ result = NoResult
    /\ procs = NoProcs
    /\ stats = ZeroStats
    /\ cmd = NoCmd

Returns(fn, value) ==
    /\ result' = [op |-> fn, raised |-> FALSE, created |-> FALSE, id |-> 0,
                  value |-> value]
    /\ UNCHANGED <<store, nextId, call, procs, stats, cmd>>

Raises(fn) ==
    /\ result' = [op |-> fn, raised |-> TRUE, created |-> FALSE, id |-> 0,
                  value |-> <<>>]
    /\ UNCHANGED <<store, nextId, call, procs, stats, cmd>>

ValidateReturns(validated) ==
    IF validated = <<>> THEN Raises("validate_poi_record")
    ELSE Returns("validate_poi_record", validated[1])

ValidatePoiRecord ==
    /\ result.op = "none"
    /\ call[1].fn = "validate_poi_record"
    /\ ValidateReturns(validate_poi_record(call[1].arg))

CoerceToFloatList ==
    /\ result.op = "none"
    /\ call[1].fn = "coerce_to_float_list"
    /\ Returns("coerce_to_float_list", coerce_to_float_list(call[1].arg))

ParseCoordinates ==
    /\ result.op = "none"
    /\ call[1].fn = "parse_coordinates"
    /\ Returns("parse_coordinates",
               parse_coordinates(call[1].arg.latitude, call[1].arg.longitude))

NextNormalize ==
    \/ ValidatePoiRecord
    \/ CoerceToFloatList
    \/ ParseCoordinates

SpecNormalize == InitNormalize /\ [][NextNormalize]_vars

\* C15: validate_poi_record, given a record whose other fields are valid,
\* returns whatever its ratings are, and the ratings of the record it returns
\* are the given ratings, each clamped into [0, 5], in the same order.
C15_SchemaClampsRatings ==
    (result.op = "validate_poi_record"
     /\ SchemaAccepts([call[1].arg EXCEPT !.ratings = List(<<>>)])) =>
        /\ ~result.raised
        /\ result.value.ratings
             = List([i \in 1..Len(call[1].arg.ratings.items) |->
                        clamp_rating(call[1].arg.ratings.items[i])])

\* the numbers among the items of a value, in their order
NumericItems(items) ==
    LET IsNumber(item) == item.kind = "number"
        numbers == SelectSeq(items, IsNumber)
    IN  [i \in 1..Len(numbers) |-> numbers[i].value]

\* C17: coerce_to_float_list returns the numeric elements of its input in
\* their order, and nothing for an element that is no number.
C17_NonNumericItemsDropped ==
    result.op = "coerce_to_float_list" =>
        result.value = NumericItems(call[1].arg.items)

\* the distance of a value in tenths of a micro-degree to a value in
\* micro-degrees, in tenths of a micro-degree
QuantizeError(v, q) == IF 10 * q >= v THEN 10 * q - v ELSE v - 10 * q

CellInRange(cell, max) ==
    cell.kind = "number" /\ -max <= cell.value /\ cell.value <= max

\* C18: parse_coordinates returns the absent pair when its latitude or its
\* longitude is no number or is out of range; else it returns two values
\* with 6 fractional digits, each within half a unit of the 6th digit of its
\* input.
C18_ParseCoordinatesAbsentOrQuantized ==
    result.op = "parse_coordinates" =>
        IF CellInRange(call[1].arg.latitude, LatitudeMax)
           /\ CellInRange(call[1].arg.longitude, LongitudeMax)
        THEN /\ Len(result.value) = 2
             /\ QuantizeError(call[1].arg.latitude.value, result.value[1]) <= 5
             /\ QuantizeError(call[1].arg.longitude.value, result.value[2]) <= 5
        ELSE result.value = <<>>

\* C19: no step of a run of the command (a batch committed, a batch rolled
\* back and retried record by record, a file aborted) removes an entity or
\* changes its id, external_id or source: an entity of the store is in the
\* store after the step with the same id and the same key.
C19_EntitiesNeverDeleted == [][EntitiesKept]_vars

\* a run with batch size 1 over two rows of the key (a, csv): the entity the
\* first batch created is updated by the second and is still stored under
\* its id
C19_Witness ==
    /\ cmd.pc = "done"
    /\ ~cmd.dry_run /\ cmd.batch_size = 1
    /\ cmd.paths = <<CsvFile(<<GoodRowA, GoodRowA2>>)>>
    /\ stats.created = 1 /\ stats.updated = 1
    /\ \E r \in store :
          /\ r.id = 1 /\ r.external_id = "a" /\ r.source = "csv"
          /\ r.name = "Hotel"
    /\ Cardinality(store) = 1

\* C20: when the command has returned, whatever its options and its inputs,
\* it has printed the summary, and the summary shows the error count.
C20_SummaryAlwaysShowsErrors ==
    cmd.pc = "done" => cmd.summary /\ cmd.errors_shown

-----------------------------------------------------------------------------
(* The parsers called on their own: SpecParse.  call holds the parser and   *)
(* the file, result the records it yielded, each with the number of its row *)

\* a row whose bytes are not UTF-8 text, a row with a field longer than the
\* csv module's field size limit
UndecodableRow == [GoodRowB EXCEPT !.bytes = "not utf-8"]
OversizedRow == [GoodRowB EXCEPT !.bytes = "field over limit"]

\* JSON objects that differ by their coordinates only
ObjectWith(coordinates) ==
    JsonObject("a", "Cafe", coordinates, "restaurant", <<45>>)

CoordinateShapes ==
    {NoCoordinates, CoordinateScalar, CoordinateArray(<<>>),
     CoordinateArray(<<Num(407128000)>>),
     CoordinateArray(<<Num(407128000), Num(-740060000)>>),
     CoordinateArray(<<Num(950000000), Num(-740060000)>>),
     CoordinateArray(<<Num(407128000), Num(-740060000), Num(100)>>),
     CoordinateObject(Num(407128000), Num(-740060000)),
     CoordinateObject(Num(407128000), Num(1810000000)),
     CoordinateObject(Num(407128000), NoneCell),
     CoordinateObject(NoneCell, NoneCell)}

ParsedFiles ==
    CsvFiles \cup JsonFiles \cup XmlFiles \cup FaultyFiles
    \cup {CsvFile(<<GoodRowA, bad, GoodRowB>>) : bad \in {UndecodableRow, OversizedRow}}
    \cup {JsonFile(<<ObjectWith(c)>>) : c \in CoordinateShapes}
    \cup {JsonFile(<<ObjectWith(c), ObjectMissingName, ObjectA>>) :
            c \in CoordinateShapes}

\* a markup document: the tag of its root and its other elements in document
\* order, each with its tag and its parent (0 for the root, else the number
\* of an earlier element)
MaxNodes == 3

XmlTrees ==
    UNION {{nodes \in [1..k -> [tag : {"poi", "item", "DATA_RECORD", "row"},
                                parent : 0..(MaxNodes - 1)]] :
               \A i \in 1..k : nodes[i].parent < i} : k \in 0..MaxNodes}

XmlDocuments ==
    {[root |-> root, nodes |-> nodes] :
        root \in {"pois", "poi", "data", "item"}, nodes \in XmlTrees}

\* root.findall(".//" + tag): the elements below the root with the tag, in
\* document order
findall(doc, tag) ==
    LET HasTag(i) == doc.nodes[i].tag = tag
    IN  SelectSeq([i \in 1..Len(doc.nodes) |-> i], HasTag)

\* list(root): the children of the root
children(doc) ==
    LET OfRoot(i) == doc.nodes[i].parent = 0
    IN  SelectSeq([i \in 1..Len(doc.nodes) |-> i], OfRoot)

\* the poi_elements of parse_xml, by their numbers, 0 for the root
poi_elements(doc) ==
    IF doc.root \in {"poi", "pois", "point_of_interest"} THEN <<0>>
    ELSE LET found == findall(doc, "DATA_RECORD") \o findall(doc, "poi")
                      \o findall(doc, "point_of_interest") \o findall(doc, "item")
         IN  IF found = <<>> THEN children(doc) ELSE found

ParserOf(file) ==
    CASE file.ext = ".csv" -> "parse_csv"
      [] file.ext = ".json" -> "parse_json"
      [] OTHER -> "parse_xml"

InitParse ==
    /\ StoreInit
    /\ call \in {<<[fn |-> ParserOf(file), arg |-> file]>> : file \in ParsedFiles}
               \cup {<<[fn |-> "poi_elements", arg |-> doc]>> : doc \in XmlDocuments}
    /\ result = NoResult
    /\ procs = NoProcs
    /\ stats = ZeroStats
    /\ cmd = NoCmd

ParseCsv ==
    /\ result.op = "none"
    /\ call[1].fn = "parse_csv"
    /\ Returns("parse_csv", parse_csv(call[1].arg))

ParseJson ==
    /\ result.op = "none"
    /\ call[1].fn = "parse_json"
    /\ Returns("parse_json", parse_json(call[1].arg))

ParseXml ==
    /\ result.op = "none"
    /\ call[1].fn = "parse_xml"
    /\ Returns("parse_xml", parse_xml(call[1].arg))

\* parse_xml up to the choice of the elements it will read
FindPoiElements ==
    /\ result.op = "none"
    /\ call[1].fn = "poi_elements"
    /\ Returns("poi_elements", poi_elements(call[1].arg))

NextParse ==
    \/ ParseCsv
    \/ ParseJson
    \/ ParseXml
    \/ FindPoiElements

SpecParse == InitParse /\ [][NextParse]_vars

SourceOf(fn) ==
    CASE fn = "parse_csv" -> "csv" [] fn = "parse_json" -> "json" [] OTHER -> "xml"

\* the rows of a file that are valid records: those the body of the
\* parser's loop turns into a record; a csv row that is no UTF-8 text or
\* has an oversized field is malformed
ValidRows(rows, source) ==
    {i \in 1..Len(rows) :
        /\ source = "csv" => rows[i].bytes = "utf-8"
        /\ parse_row(rows[i], source) # <<>>}

\* C21: a parser yields exactly the valid records of the file, in file
\* order: the rows yielded are the valid rows, in increasing order, each
\* with the record of its row, whatever malformed or invalid rows stand
\* before or after them.
C21_ParsersYieldValidRecordsInOrder ==
    result.op \in {"parse_csv", "parse_json", "parse_xml"} =>
        LET rows == call[1].arg.rows
            source == SourceOf(result.op)
            yielded == result.value
        IN  /\ ~result.raised
            /\ {yielded[j].row : j \in 1..Len(yielded)} = ValidRows(rows, source)
            /\ \A j \in 1..Len(yielded) :
                  /\ j > 1 => yielded[j - 1].row < yielded[j].row
                  /\ <<yielded[j].record>> = parse_row(rows[yielded[j].row], source)

\* coordinates in one of the two documented shapes: an array of two items,
\* an object with the keys latitude and longitude
DocumentedShape(coordinates) ==
    \/ coordinates.shape = "array" /\ Len(coordinates.items) = 2
    \/ /\ coordinates.shape = "object"
       /\ coordinates.items[1] # NoneCell
       /\ coordinates.items[2] # NoneCell

\* C22: parse_json yields a record for an object only when the coordinates
\* of the object are an array of two items or an object with the keys
\* latitude and longitude; an object with coordinates of another shape
\* yields no record.
C22_OnlyDocumentedCoordinatesYield ==
    result.op = "parse_json" =>
        \A j \in 1..Len(result.value) :
           DocumentedShape(call[1].arg.rows[result.value[j].row].coordinates)

-----------------------------------------------------------------------------
(* The command's JSON path, under SpecImport *)

\* a .json file holding an array of valid objects in the documented format,
\* with distinct ids
ValidObjectArray(file) ==
    /\ file.kind = "file" /\ file.ext = ".json" /\ file.fault = "none"
    /\ file.rows # <<>>
    /\ \A i \in 1..Len(file.rows) :
          /\ DocumentedShape(file.rows[i].coordinates)
          /\ _parse_json_object(file.rows[i]) # <<>>
          /\ \A j \in 1..Len(file.rows) : file.rows[j].id = file.rows[i].id => j = i

\* C23: a run of the command that stores what it imports, over one .json
\* file holding an array of N valid objects, hands to validation the records
\* parse_json yields for the file and ends with N entities, one per object,
\* with source json and the coordinates parse_json gave the object.
C23_JsonArrayImportedAsParsed ==
    (/\ cmd.pc = "done" /\ ~cmd.dry_run
     /\ Len(cmd.paths) = 1 /\ ValidObjectArray(cmd.paths[1])) =>
        LET file == cmd.paths[1]
            parsed == parse_json(file)
        IN  /\ Records(file, cmd.ijson) = parsed
            /\ Cardinality(store) = Len(file.rows)
            /\ \A j \in 1..Len(parsed) :
                  \E r \in store :
                     /\ r.external_id = parsed[j].record.external_id
                     /\ r.source = "json"
                     /\ r.latitude = parsed[j].record.latitude[1]
                     /\ r.longitude = parsed[j].record.longitude[1]

-----------------------------------------------------------------------------
(* The candidate elements of a markup document, under SpecParse *)

RecordTags == {"DATA_RECORD", "poi", "point_of_interest", "item"}

\* the elements of a document with one of the four names: those below the
\* root, and the root itself when it has one of the names
NamedBelowRoot(doc) == {i \in 1..Len(doc.nodes) : doc.nodes[i].tag \in RecordTags}
NamedElements(doc) ==
    NamedBelowRoot(doc) \cup (IF doc.root \in RecordTags THEN {0} ELSE {})

\* the candidates the named elements give, the children of the root when
\* there is none
CandidatesOf(doc, named) ==
    IF named # {} THEN named
    ELSE {i \in 1..Len(doc.nodes) : doc.nodes[i].parent = 0}

\* C24: whatever the tag of the root, the candidate elements of a document
\* are its elements named DATA_RECORD, poi, point_of_interest or item
\* (whether the root is counted among them or not), each once, and the
\* children of the root only when no element has one of these names.
C24_CandidatesAreNamedElements ==
    result.op = "poi_elements" =>
        LET doc == call[1].arg
            found == result.value
        IN  /\ \A i, j \in 1..Len(found) : found[i] = found[j] => i = j
            /\ \/ {found[i] : i \in 1..Len(found)}
                    = CandidatesOf(doc, NamedBelowRoot(doc))
               \/ {found[i] : i \in 1..Len(found)}
                    = CandidatesOf(doc, NamedElements(doc))

-----------------------------------------------------------------------------
(* The order in which a file's records reach the store, under SpecImport *)

\* a run over one supported file that stores what it imports, at its end
OneFileRunEnded ==
    /\ cmd.pc = "done" /\ ~cmd.dry_run
    /\ Len(cmd.paths) = 1 /\ Len(cmd.files) = 1
    /\ ~StreamRaises(cmd.files[1], cmd.ijson)

\* the records of the file that validate_poi_payload accepts
ValidRecordsOf(records) ==
    {i \in 1..Len(records) : validate_poi_payload(records[i].record) = {}}

\* the records of the file that were handed to _process_batch
HandedRecords == {i \in 1..Len(Records(cmd.files[1], cmd.ijson)) :
                     HandedPlaces(<<1, i>>) # {}}

RECURSIVE UpsertedInOrder(_, _, _, _, _, _)
UpsertedNext(r, records, places, i, st, nid, stop) ==
    IF r.raised
    THEN IF stop THEN st
         ELSE UpsertedInOrder(records, places, i + 1, st, nid, stop)
    ELSE UpsertedInOrder(records, places, i + 1, r.store, r.nextId, stop)

UpsertedInOrder(records, places, i, st, nid, stop) ==
    IF i > Len(records) THEN st
    ELSE IF i \notin places
    THEN UpsertedInOrder(records, places, i + 1, st, nid, stop)
    ELSE UpsertedNext(upsert_poi(st, nid, records[i].record),
                      records, places, i, st, nid, stop)

\* the store after the import of one file is the store obtained by
\* upserting the records that were handed to the store one at a time in
\* file order, leaving out a record whose upsert raises (and, under
\* stop-on-error, every record after it)
HandedRecordsAppliedInFileOrder ==
    OneFileRunEnded =>
        store = UpsertedInOrder(Records(cmd.files[1], cmd.ijson), HandedRecords,
                                1, {}, 1, cmd.stop_on_error)

-----------------------------------------------------------------------------
(* batch_upsert_pois called on its own: SpecBatchUpsert, one call on a     *)
(* table that is empty or holds the entity (a, csv)                        *)

MaxPayloads == 3

\* lists of payloads of two keys, one of which the store refuses
LongerPayloadLists ==
    SeqsUpTo({BasePayload("a", "csv"), OtherPayload("a", "csv"),
              BasePayload("b", "csv"),
              [BasePayload("a", "csv") EXCEPT !.name = Name256]}, MaxPayloads)

InitBatchUpsert ==
    /\ \/ StoreInit
       \/ /\ store = {NewRow(1, "a", "csv", DerivedFields(EarlierPayload))}
          /\ nextId = 2
    /\ call = NoCall
    /\ result = NoResult
    /\ procs = NoProcs
    /\ stats = ZeroStats
    /\ cmd = NoCmd

BatchUpsertCall ==
    /\ result.op = "none"
    /\ \E payloads \in LongerPayloadLists : BatchUpsert(payloads)

SpecBatchUpsert == InitBatchUpsert /\ [][BatchUpsertCall]_vars

\* the payloads of a list as the records of a file
AsRecords(payloads) == [i \in 1..Len(payloads) |-> [row |-> i, record |-> payloads[i]]]

\* the store when the i-th payload of the list is attempted, st being the
\* store at the call
StoreAt(payloads, i, st, nid) ==
    UpsertedInOrder(AsRecords(payloads), 1..(i - 1), 1, st, nid, FALSE)

\* the i-th payload is applied, and its key is absent when it is
CreatedAt(payloads, i, st, nid) ==
    /\ ~upsert_poi(StoreAt(payloads, i, st, nid), nid + i, payloads[i]).raised
    /\ KeyRows(StoreAt(payloads, i, st, nid),
               DerivedKey(payloads[i])[1], DerivedKey(payloads[i])[2]) = {}

\* C26: a call of batch_upsert_pois on a list of payloads returns; the
\* store after it is the store obtained by upserting the payloads one at a
\* time in order, a payload whose upsert raises being left out and the later
\* ones applied all the same; the three counts it returns sum to the length
\* of the list, and created is the number of payloads applied while their
\* key was absent.
C26_BatchUpsertAttemptsEveryPayload ==
    [][result'.op = "batch_upsert_pois" =>
          /\ ~result'.raised
          /\ store' = StoreAt(call', Len(call') + 1, store, nextId)
          /\ result'.counts[1] + result'.counts[2] + result'.counts[3] = Len(call')
          /\ result'.counts[1]
               = Cardinality({i \in 1..Len(call') :
                                 CreatedAt(call', i, store, nextId)})]_vars

\* a call on an empty table whose first payload the store refuses, whose
\* second payload is created and whose third payload updates the second
C26_Witness ==
    /\ result.op = "batch_upsert_pois"
    /\ call = <<[BasePayload("a", "csv") EXCEPT !.name = Name256],
                BasePayload("a", "csv"), OtherPayload("a", "csv")>>
    /\ result.counts = <<1, 1, 1>>
    /\ \E r \in store : r.external_id = "a" /\ r.source = "csv" /\ r.name = "Hotel"

-----------------------------------------------------------------------------
(* The file counters, under SpecImport *)

\* the discovered files that are counted so far: the unsupported ones, and
\* the supported ones _process_file is done with
FilesDone ==
    CASE cmd.pc = "start" -> 0
      [] cmd.pc = "file" -> stats.files_seen - Len(cmd.files) + cmd.file - 1
      [] cmd.stopped -> stats.files_seen - Len(cmd.files) + cmd.file
      [] OTHER -> stats.files_seen

\* C27: every discovered file the run is done with is counted once, in
\* files_processed or in files_skipped; so at the end of a run without
\* stop-on-error files_seen == files_processed + files_skipped, and in a run
\* with stop-on-error the sum never exceeds files_seen.
C27_EachFileProcessedOrSkipped ==
    /\ stats.files_processed + stats.files_skipped = FilesDone
    /\ stats.files_processed + stats.files_skipped <= stats.files_seen
    /\ (cmd.pc = "done" /\ ~cmd.stop_on_error) =>
          stats.files_seen = stats.files_processed + stats.files_skipped

\* a run without stop-on-error over a .json file that cannot be opened and
\* a .csv file: the first is counted as skipped, the second as processed
C27_Witness ==
    /\ cmd.pc = "done" /\ ~cmd.stop_on_error /\ cmd.ijson
    /\ Len(cmd.paths) = 2
    /\ cmd.paths[1] = Faulty(JsonFile(<<>>), "unreadable")
    /\ cmd.paths[2].ext = ".csv"
    /\ stats.files_seen = 2
    /\ stats.files_skipped = 1 /\ stats.files_processed = 1

-----------------------------------------------------------------------------
(* The outcome counters, under SpecBatch *)

\* C28: when _process_batch has returned in a run without stop-on-error,
\* whether the batch was committed or rolled back and retried record by
\* record, created + updated + errors equals the number of records counted
\* in records_ok.
C28_OutcomesSumToRecordsOk ==
    (BatchReturned /\ ~cmd.stop_on_error) =>
        stats.created + stats.updated + stats.errors = stats.records_ok

-----------------------------------------------------------------------------
(* Two calls racing to create one key, under SpecConc *)

\* the key was absent when the two calls began: one of them has created the
\* entity (when the key is stored already, neither call creates)
KeyWasAbsent == \E i \in ProcIds : procs[i].created

\* C29: when two upsert_poi calls on one key that was absent from the store
\* have both ended, whatever their interleaving, neither has raised, and
\* exactly one of them has returned created = true.
C29_RacingCreatesBothReturn ==
    (BothDone /\ KeyWasAbsent) =>
        /\ \A i \in ProcIds : ~procs[i].raised
        /\ Cardinality({i \in ProcIds : procs[i].created}) = 1

-----------------------------------------------------------------------------
(* A call of upsert_poi that raises, under Spec *)

\* C30: a call of upsert_poi that raises leaves the store as it was: no
\* entity is added, removed or changed, and the next primary key is the
\* same.
C30_RaisingUpsertLeavesStoreUnchanged ==
    [][(result'.op = "upsert_poi" /\ result'.raised) =>
          store' = store /\ nextId' = nextId]_vars

\* an update of the stored entity (a, csv) has raised on a name longer than
\* the column: the entity still has every field of the record that created
\* it
C30_Witness ==
    /\ result.op = "upsert_poi" /\ result.raised
    /\ call = <<[BasePayload("a", "csv") EXCEPT !.name = Name256]>>
    /\ \E r \in store :
          /\ SameKey(r, "a", "csv")
          /\ FieldsComeFrom(r, OtherPayload("a", "csv"))

=============================================================================
